---------------------------- MODULE Spec2Model ----------------------------
(***************************************************************************)
(* A model of the Ephemeris & Visibility Engine of nightsky                *)
(* (src/nightsky/frontend/js/astronomy.js).                                *)
(* and of two classes of its viewer: AnimationController                   *)
(* (src/frontend/js/animation.js) and the history buffer of OrbitRenderer  *)
(* (src/frontend/js/orbit-renderer.js).                                    *)
(*                                                                         *)
(* Number representation.  The engine computes in IEEE doubles; the model  *)
(* computes in fixed point:                                                *)
(*   - an angle is an integer count of millidegrees (md);                  *)
(*   - a sine, cosine or other ratio is an integer scaled by Unit (1e4);   *)
(*   - a Date is its getTime() in whole seconds since 1970-01-01T00:00Z;   *)
(*   - a Julian Date jd is held as (jd - 2451545.0) * 86400, the seconds   *)
(*     since the J2000.0 epoch;                                            *)
(*   - null / undefined is the empty sequence <<>>, a value v that may be  *)
(*     null is <<v>>.                                                      *)
(*                                                                         *)
(* The numeric routines are written as functions f[x \in Int]: applying a *)
(* function evaluates its argument once, as a call in the engine does.     *)
(***************************************************************************)
EXTENDS Integers, Sequences, FiniteSets, TLC

VARIABLES
    twLat,      \* calculateTwilightTimes: the observer latitude of the call (md)
    twLon,      \* calculateTwilightTimes: the observer longitude of the call (md)
    twStack,    \* calculateTwilightTimes: the activation frames, outermost first
    twRet,      \* calculateTwilightTimes: what the outermost call gave its caller
    call,       \* a call of an engine function: its name and arguments
    ret,        \* null before the call has returned, <<result>> after
    loop,       \* a day-stepped search: the state of its loop, or null
    tables,     \* the engine's two tables, BORTLE_SCALE and PLANETS, as they stand
    animation,  \* the AnimationController: its fields
    trackHistory,   \* the OrbitRenderer's history buffer, oldest position first
    added       \* every position given to addToHistory since the last clearHistory

twVars == <<twLat, twLon, twStack, twRet>>
callVars == <<call, ret, loop>>
viewVars == <<animation, trackHistory, added>>

vars == <<twLat, twLon, twStack, twRet, call, ret, loop, tables, animation,
          trackHistory, added>>

-----------------------------------------------------------------------------
(* Units *)

Unit == 10^4                \* scale of sines, cosines and ratios
MdPerDeg == 10^3            \* millidegrees in a degree
SecPerDay == 24 * 3600      \* seconds in a day

Null == <<>>
Some(v) == <<v>>
IsNull(x) == x = <<>>
Val(x) == x[1]

\* the value of Body at e, with e evaluated once
Bind(e, Body(_)) == CHOOSE r \in {Body(x) : x \in {e}} : TRUE

Abs[x \in Int] == IF x < 0 THEN -x ELSE x
Sgn[x \in Int] == IF x < 0 THEN -1 ELSE IF x > 0 THEN 1 ELSE 0
Min[a \in Int, b \in Int] == IF a < b THEN a ELSE b
Max[a \in Int, b \in Int] == IF a > b THEN a ELSE b

\* a / b rounded to the nearest integer (b > 0): a double division followed by
\* the rounding of the fixed-point representation
RDiv(a, b) == (2 * a + b) \div (2 * b)

\* Math.floor(a / b) for b > 0
Floor(a, b) == a \div b

-----------------------------------------------------------------------------
(* Math.sin, Math.cos, Math.asin, Math.acos, Math.atan2, Math.sqrt *)

\* sin(k degrees) * Unit for k = 0..90
SinTab == <<
    0, 175, 349, 523, 698, 872, 1045, 1219, 1392, 1564,
    1736, 1908, 2079, 2250, 2419, 2588, 2756, 2924, 3090, 3256,
    3420, 3584, 3746, 3907, 4067, 4226, 4384, 4540, 4695, 4848,
    5000, 5150, 5299, 5446, 5592, 5736, 5878, 6018, 6157, 6293,
    6428, 6561, 6691, 6820, 6947, 7071, 7193, 7314, 7431, 7547,
    7660, 7771, 7880, 7986, 8090, 8192, 8290, 8387, 8480, 8572,
    8660, 8746, 8829, 8910, 8988, 9063, 9135, 9205, 9272, 9336,
    9397, 9455, 9511, 9563, 9613, 9659, 9703, 9744, 9781, 9816,
    9848, 9877, 9903, 9925, 9945, 9962, 9976, 9986, 9994, 9998,
    10000 >>

\* sine of an angle in the first quadrant, 0 <= md <= 90000
SinQ[md \in Int] ==
    LET k == md \div MdPerDeg
        f == md % MdPerDeg
    IN  IF k >= 90 THEN SinTab[91]
        ELSE SinTab[k + 1] + RDiv((SinTab[k + 2] - SinTab[k + 1]) * f, MdPerDeg)

\* Math.sin(toRadians(md / 1000)) * Unit
Sin[md \in Int] ==
    LET a == md % (360 * MdPerDeg)
    IN  IF a <= 90 * MdPerDeg THEN SinQ[a]
        ELSE IF a <= 180 * MdPerDeg THEN SinQ[180 * MdPerDeg - a]
        ELSE IF a <= 270 * MdPerDeg THEN -SinQ[a - 180 * MdPerDeg]
        ELSE -SinQ[360 * MdPerDeg - a]

\* Math.cos(toRadians(md / 1000)) * Unit
Cos[md \in Int] == Sin[md + 90 * MdPerDeg]

\* the whole degrees of the arcsine of 0 <= x < Unit
DegreeBelow[x \in Int, lo \in Int, hi \in Int] ==
    IF hi - lo <= 1 THEN lo
    ELSE IF SinTab[(lo + hi) \div 2 + 1] <= x
         THEN DegreeBelow[x, (lo + hi) \div 2, hi]
         ELSE DegreeBelow[x, lo, (lo + hi) \div 2]

\* arcsine of 0 <= x <= Unit, in md
ASinQ[x \in Int] ==
    IF x >= SinTab[91] THEN 90 * MdPerDeg
    ELSE Bind(DegreeBelow[x, 0, 90], LAMBDA k :
             k * MdPerDeg +
             ((x - SinTab[k + 1]) * MdPerDeg) \div (SinTab[k + 2] - SinTab[k + 1]))

\* toDegrees(Math.asin(x / Unit)) in md, for -Unit <= x <= Unit
ASin[x \in Int] == IF x >= 0 THEN ASinQ[x] ELSE -ASinQ[-x]

\* toDegrees(Math.acos(x / Unit)) in md, for -Unit <= x <= Unit
ACos[x \in Int] == 90 * MdPerDeg - ASin[x]

\* Math.max(-1, Math.min(1, x))
Clamp[x \in Int] == Max[-Unit, Min[Unit, x]]

SqrtBetween[n \in Int, lo \in Int, hi \in Int] ==
    IF lo >= hi THEN lo
    ELSE IF ((lo + hi + 1) \div 2) * ((lo + hi + 1) \div 2) <= n
         THEN SqrtBetween[n, (lo + hi + 1) \div 2, hi]
         ELSE SqrtBetween[n, lo, (lo + hi + 1) \div 2 - 1]

\* Math.sqrt of a non-negative integer below 2^31, rounded down
Sqrt[n \in Int] == SqrtBetween[n, 0, 46340]

\* toDegrees(Math.atan2(y, x)) in md, in (-180000, 180000]
ATan2[y \in Int, x \in Int] ==
    LET r == Sqrt[x * x + y * y]
    IN  IF x = 0 /\ y = 0 THEN 0
        ELSE IF Abs[y] <= Abs[x]
        THEN LET a == ASin[Clamp[RDiv(y * Unit, r)]]
             IN  IF x > 0 THEN a
                 ELSE IF y >= 0 THEN 180 * MdPerDeg - a ELSE -180 * MdPerDeg - a
        ELSE LET a == ACos[Clamp[RDiv(x * Unit, r)]]
             IN  IF y < 0 THEN -a ELSE a

-----------------------------------------------------------------------------
(* Fundamental constants (astronomy.js, FUNDAMENTAL CONSTANTS) *)

HOURS_TO_DEG == 15
J2000 == 2451545                 \* J2000.0 = JD 2451545.0
JULIAN_CENTURY == 36525
OBLIQUITY_J2000 == 23439         \* 23.439291111 degrees, in md
REFRACTION_HORIZON == 567        \* 0.5667 degrees, in md
SUN_HORIZON_ANGLE == -833        \* -0.8333 degrees, in md
TWILIGHT_CIVIL == -6000          \* -6 degrees, in md
TWILIGHT_NAUTICAL == -12000      \* -12 degrees, in md
TWILIGHT_ASTRONOMICAL == -18000  \* -18 degrees, in md
SIDEREAL_RATIO == 10027379       \* 1.00273790935, scaled by 1e7
SUN_MEAN_LONGITUDE_J2000 == 280461     \* 280.461 degrees, in md
SUN_MEAN_ANOMALY_J2000 == 357528       \* 357.528 degrees, in md
SUN_EOC_1 == 1915                \* 1.915 degrees, in md
SUN_EOC_2 == 20                  \* 0.020 degrees, in md

-----------------------------------------------------------------------------
(* The reference tables.  Planets: distances in 1e-3 AU, eccentricities
   scaled by Unit, angles in md, rates per Julian century, periods in
   hundredths of a day, magnitudes in thousandths.  Bortle scale: limiting
   magnitudes and SQM readings in hundredths; the description and details
   texts of a class are left out. *)

BORTLE_SCALE == [c \in 1..9 |->
    [name |-> <<"Excellent Dark-Sky Site", "Typical Truly Dark Site", "Rural Sky",
                "Rural/Suburban Transition", "Suburban Sky", "Bright Suburban Sky",
                "Suburban/Urban Transition", "City Sky", "Inner-City Sky">>[c],
     limitingMag |-> <<780, 730, 680, 630, 580, 530, 480, 430, 400>>[c],
     sqm |-> <<2199, 2189, 2169, 2125, 2049, 1950, 1894, 1838, 1780>>[c]]]

PLANETS == [
    mercury |-> [name |-> "Mercury",
                 a |-> 387, e |-> 2056, I |-> 7005, L |-> 252250,
                 longPeri |-> 77458, longNode |-> 48331,
                 aRate |-> 0, eRate |-> 0, IRate |-> -6, LRate |-> 149472674,
                 longPeriRate |-> 160, longNodeRate |-> -125,
                 synodicPeriod |-> Some(11588),
                 apparentMagRange |-> <<-2600, 5700>>],
    venus   |-> [name |-> "Venus",
                 a |-> 723, e |-> 68, I |-> 3395, L |-> 181979,
                 longPeri |-> 131602, longNode |-> 76680,
                 aRate |-> 0, eRate |-> 0, IRate |-> -1, LRate |-> 58517815,
                 longPeriRate |-> 3, longNodeRate |-> -278,
                 synodicPeriod |-> Some(58392),
                 apparentMagRange |-> <<-4900, -3800>>],
    earth   |-> [name |-> "Earth",
                 a |-> 1000, e |-> 167, I |-> 0, L |-> 100465,
                 longPeri |-> 102938, longNode |-> 0,
                 aRate |-> 0, eRate |-> 0, IRate |-> -13, LRate |-> 35999372,
                 longPeriRate |-> 323, longNodeRate |-> 0,
                 synodicPeriod |-> Null,
                 apparentMagRange |-> Null],
    mars    |-> [name |-> "Mars",
                 a |-> 1524, e |-> 934, I |-> 1850, L |-> -4553,
                 longPeri |-> -23944, longNode |-> 49560,
                 aRate |-> 0, eRate |-> 1, IRate |-> -8, LRate |-> 19140303,
                 longPeriRate |-> 444, longNodeRate |-> -293,
                 synodicPeriod |-> Some(77994),
                 apparentMagRange |-> <<-2940, 1860>>],
    jupiter |-> [name |-> "Jupiter",
                 a |-> 5203, e |-> 484, I |-> 1304, L |-> 34396,
                 longPeri |-> 14728, longNode |-> 100474,
                 aRate |-> 0, eRate |-> -1, IRate |-> -2, LRate |-> 3034746,
                 longPeriRate |-> 213, longNodeRate |-> 205,
                 synodicPeriod |-> Some(39888),
                 apparentMagRange |-> <<-2940, -1660>>],
    saturn  |-> [name |-> "Saturn",
                 a |-> 9537, e |-> 539, I |-> 2486, L |-> 49954,
                 longPeri |-> 92599, longNode |-> 113662,
                 aRate |-> -1, eRate |-> -5, IRate |-> 2, LRate |-> 1222494,
                 longPeriRate |-> -419, longNodeRate |-> -289,
                 synodicPeriod |-> Some(37809),
                 apparentMagRange |-> <<-550, 1170>>],
    uranus  |-> [name |-> "Uranus",
                 a |-> 19189, e |-> 473, I |-> 773, L |-> 313238,
                 longPeri |-> 170954, longNode |-> 74017,
                 aRate |-> -2, eRate |-> 0, IRate |-> -2, LRate |-> 428482,
                 longPeriRate |-> 408, longNodeRate |-> 42,
                 synodicPeriod |-> Some(36966),
                 apparentMagRange |-> <<5380, 6030>>],
    neptune |-> [name |-> "Neptune",
                 a |-> 30070, e |-> 86, I |-> 1770, L |-> -55120,
                 longPeri |-> 44965, longNode |-> 131784,
                 aRate |-> 0, eRate |-> 1, IRate |-> 0, LRate |-> 218459,
                 longPeriRate |-> -322, longNodeRate |-> -5,
                 synodicPeriod |-> Some(36749),
                 apparentMagRange |-> <<7780, 8020>>] ]

-----------------------------------------------------------------------------
(* Angle primitives *)

\* normalizeAngle: wrap to [0, 360); JS % takes the sign of the dividend
normalizeAngle[angle \in Int] ==
    LET a == Sgn[angle] * (Abs[angle] % (360 * MdPerDeg))
    IN  IF a < 0 THEN a + 360 * MdPerDeg ELSE a

\* normalizeAngleSigned: wrap to (-180, 180]
normalizeAngleSigned[angle \in Int] ==
    LET a == normalizeAngle[angle]
    IN  IF a > 180 * MdPerDeg THEN a - 360 * MdPerDeg ELSE a

-----------------------------------------------------------------------------
(* Date: the UTC getters, and dateToJulian *)

\* [y, m, d] of the UTC day that is z days after 1970-01-01
CivilFromDays[z \in Int] ==
    LET zz  == z + 719468
        era == zz \div 146097
        doe == zz - era * 146097
        yoe == (doe - doe \div 1460 + doe \div 36524 - doe \div 146096) \div 365
        doy == doe - (365 * yoe + yoe \div 4 - yoe \div 100)
        mp  == (5 * doy + 2) \div 153
        d   == doy - (153 * mp + 2) \div 5 + 1
        m   == IF mp < 10 THEN mp + 3 ELSE mp - 9
    IN  [y |-> yoe + era * 400 + (IF m <= 2 THEN 1 ELSE 0), m |-> m, d |-> d]

getUTCFullYear[date \in Int] == CivilFromDays[date \div SecPerDay].y
getUTCMonth[date \in Int] == CivilFromDays[date \div SecPerDay].m - 1
getUTCDate[date \in Int] == CivilFromDays[date \div SecPerDay].d
\* getUTCHours() + getUTCMinutes()/60 + getUTCSeconds()/3600, in seconds
UTCSecondsOfDay[date \in Int] == date % SecPerDay

\* the Julian day number of dateToJulian for the civil date y-m-d (m = 1..12):
\* floor(365.25 (jy + 4716)) + floor(30.6001 (jm + 1)) + d + b - 1524
JulianDayNumber[y \in Int, m \in Int, d \in Int] ==
    LET jy == IF m <= 2 THEN y - 1 ELSE y
        jm == IF m <= 2 THEN m + 12 ELSE m
        a  == Floor(jy, 100)
        b  == 2 - a + Floor(a, 4)
    IN  Floor(36525 * (jy + 4716), 100) + Floor(306001 * (jm + 1), 10000) + d + b - 1524

\* dateToJulian(date), as seconds since J2000.0
dateToJulian[date \in Int] ==
    (JulianDayNumber[getUTCFullYear[date], getUTCMonth[date] + 1, getUTCDate[date]]
        - J2000) * SecPerDay + UTCSecondsOfDay[date] - SecPerDay \div 2

\* base + rate * (jd - J2000) for a rate of (whole + frac / 1e4) md per day
PerDay[base \in Int, whole \in Int, frac \in Int, jd \in Int] ==
    LET days == jd \div SecPerDay
        rest == jd % SecPerDay
    IN  base + whole * days + RDiv(frac * days, 10^4) +
        RDiv((whole * 10 + frac \div 1000) * rest, 10 * SecPerDay)

-----------------------------------------------------------------------------
(* Sidereal time and obliquity *)

\* gmst(jd) in md.  360.98564736629 degrees per day is one turn plus
\* 985.6474 md; the t^2 and t^3 terms stay below 0.1 md within a century of
\* J2000.0 and are below the resolution of the representation.
gmst[jd \in Int] ==
    normalizeAngle[(PerDay[280461, 985, 6474, jd] % (360 * MdPerDeg)) +
                   RDiv((jd % SecPerDay) * 25, 6)]

\* lst(jd, longitude) in md
lst[jd \in Int, longitude \in Int] == normalizeAngle[gmst[jd] + longitude]

\* meanObliquity(jd) in md: -46.8150 arcsec per century is -13.004 md per
\* century; the t^2 and t^3 terms are below the resolution.
meanObliquity[jd \in Int] ==
    OBLIQUITY_J2000 - RDiv(13004 * (jd \div SecPerDay), JULIAN_CENTURY * MdPerDeg)

-----------------------------------------------------------------------------
(* Rise and set hour angle, transit *)

\* cosH = (sin h0 - sin(lat) sin(dec)) / (cos(lat) cos(dec)), scaled by Unit.
\* For lat, dec in [-90, 90] the divisor is never zero in doubles
\* (Math.cos(Math.PI / 2) is 6.1e-17), so at a pole the quotient is finite
\* and has the sign of the dividend: it is held as +-Unit * Unit there.
CosHourAngle[h0 \in Int, lat \in Int, dec \in Int] ==
    LET num == Sin[h0] - RDiv(Sin[lat] * Sin[dec], Unit)
        den == RDiv(Cos[lat] * Cos[dec], Unit)
    IN  IF den <= 0 THEN Sgn[num] * Unit * Unit
        ELSE RDiv(num * Unit, den)

\* x seconds of sidereal time in mean solar seconds: x / SIDEREAL_RATIO,
\* computed as x - x * (1 - 1 / SIDEREAL_RATIO)
SiderealToSolar[x \in Int] ==
    LET excess == ((SIDEREAL_RATIO - 10^7) * 10^4) \div (SIDEREAL_RATIO \div 10^3)
    IN  x - ((x * excess) \div 10^7)

\* an angle in md as seconds of time: md / 1000 / HOURS_TO_DEG * 3600
AngleToSeconds[md \in Int] == RDiv(md * 36, 10 * HOURS_TO_DEG)

\* the hour angle without its second fold: left in [0, 360)
TransitHourAngleForward(d0) ==
    IF d0 < 0 THEN d0 + 360 * MdPerDeg ELSE d0

\* the hour angle of calculateTransit: ra - lst0 brought into (-180, 180]
TransitHourAngle(d0) ==
    LET d1 == IF d0 < 0 THEN d0 + 360 * MdPerDeg ELSE d0
    IN  IF d1 > 180 * MdPerDeg THEN d1 - 360 * MdPerDeg ELSE d1

\* calculateTransit(ra, lon, date): a Date
calculateTransit[ra \in Int, lon \in Int, date \in Int] ==
    LET midnight == date - (date % SecPerDay)       \* setUTCHours(0, 0, 0, 0)
        lst0 == lst[dateToJulian[midnight], lon]
    IN  midnight + SiderealToSolar[AngleToSeconds[TransitHourAngle(ra - lst0)]]

\* the outcome without the never-rises case
RiseSetOutcomeAlwaysUp(cosH) ==
    IF cosH < -Unit \/ cosH > Unit THEN "circumpolar" ELSE "normal"

\* which of its three returns calculateRiseTransitSet takes
RiseSetOutcome(cosH) ==
    IF cosH < -Unit THEN "circumpolar"
    ELSE IF cosH > Unit THEN "neverRises"
    ELSE "normal"

\* calculateRiseTransitSet(ra, dec, lat, lon, date, horizonAngle); a field
\* the returned object does not have is null here
calculateRiseTransitSet(ra, dec, lat, lon, date, horizonAngle) ==
    Bind(CosHourAngle[horizonAngle, lat, dec], LAMBDA cosH :
    Bind(RiseSetOutcome(cosH), LAMBDA outcome :
        IF outcome = "circumpolar"
        THEN [circumpolar |-> Some(TRUE), neverRises |-> Null, rise |-> Null,
              transit |-> Some(calculateTransit[ra, lon, date]), set |-> Null]
        ELSE IF outcome = "neverRises"
        THEN [circumpolar |-> Null, neverRises |-> Some(TRUE), rise |-> Null,
              transit |-> Null, set |-> Null]
        ELSE Bind(calculateTransit[ra, lon, date], LAMBDA transit :
             Bind(AngleToSeconds[ACos[cosH]], LAMBDA riseOffset :
                [circumpolar |-> Some(FALSE), neverRises |-> Some(FALSE),
                 rise |-> Some(transit - riseOffset),
                 transit |-> Some(transit),
                 set |-> Some(transit + riseOffset)]))))

-----------------------------------------------------------------------------
(* Sun position and twilight *)

\* the ecliptic longitude lambda at obliquity epsilon as [ra, dec, longitude]
SunEquatorial[lambda \in Int, epsilon \in Int] ==
    [ra  |-> normalizeAngle[ATan2[RDiv(Cos[epsilon] * Sin[lambda], Unit), Cos[lambda]]],
     dec |-> ASin[RDiv(Sin[epsilon] * Sin[lambda], Unit)],
     longitude |-> lambda]

\* the equation of center for mean anomaly g
SunEquationOfCenter[g \in Int] ==
    RDiv(SUN_EOC_1 * Sin[g], Unit) + RDiv(SUN_EOC_2 * Sin[2 * g], Unit)

\* approximateSunPosition for the Julian Date jd
SunAtJulian[jd \in Int] ==
    LET L == normalizeAngle[PerDay[SUN_MEAN_LONGITUDE_J2000, 985, 6474, jd]]
        g == normalizeAngle[PerDay[SUN_MEAN_ANOMALY_J2000, 985, 6003, jd]]
    IN  SunEquatorial[L + SunEquationOfCenter[g], meanObliquity[jd]]

\* approximateSunPosition(date): [ra, dec, longitude] in md
approximateSunPosition[date \in Int] == SunAtJulian[dateToJulian[date]]

\* the two branches with the offset taken the other way round
SunRiseSetFromMirrored(cosH, lon, date) ==
    IF cosH < -Unit \/ cosH > Unit
    THEN [rise |-> Null, set |-> Null,
          polarDay |-> Some(cosH < -Unit), polarNight |-> Some(cosH > Unit)]
    ELSE Bind(calculateTransit[approximateSunPosition[date].ra, lon, date],
              LAMBDA transit :
                  [rise |-> Some(transit + AngleToSeconds[ACos[cosH]]),
                   set  |-> Some(transit - AngleToSeconds[ACos[cosH]]),
                   polarDay |-> Null, polarNight |-> Null])

\* the two branches of calculateSunRiseSet once cosH is known
SunRiseSetFrom(cosH, lon, date) ==
    IF cosH < -Unit \/ cosH > Unit
    THEN [rise |-> Null, set |-> Null,
          polarDay |-> Some(cosH < -Unit), polarNight |-> Some(cosH > Unit)]
    ELSE Bind(calculateTransit[approximateSunPosition[date].ra, lon, date],
              LAMBDA transit :
                  [rise |-> Some(transit - AngleToSeconds[ACos[cosH]]),
                   set  |-> Some(transit + AngleToSeconds[ACos[cosH]]),
                   polarDay |-> Null, polarNight |-> Null])

\* calculateSunRiseSet(sunDec, lat, lon, date, h0)
calculateSunRiseSet[sunDec \in Int, lat \in Int, lon \in Int, date \in Int, h0 \in Int] ==
    SunRiseSetFrom(CosHourAngle[h0, lat, sunDec], lon, date)

\* the loop of calculateTwilightTimes over its eight events: the result
\* record before darknessDuration is considered
TwilightEvents[lat \in Int, lon \in Int, date \in Int] ==
    Bind(approximateSunPosition[date], LAMBDA sunCoords :
    Bind(calculateSunRiseSet[sunCoords.dec, lat, lon, date, SUN_HORIZON_ANGLE], LAMBDA sun :
    Bind(calculateSunRiseSet[sunCoords.dec, lat, lon, date, TWILIGHT_CIVIL], LAMBDA civil :
    Bind(calculateSunRiseSet[sunCoords.dec, lat, lon, date, TWILIGHT_NAUTICAL], LAMBDA naut :
    Bind(calculateSunRiseSet[sunCoords.dec, lat, lon, date, TWILIGHT_ASTRONOMICAL], LAMBDA astro :
        [date |-> date, sunPosition |-> sunCoords,
         sunrise |-> sun.rise, sunset |-> sun.set,
         civilDawn |-> civil.rise, civilDusk |-> civil.set,
         nauticalDawn |-> naut.rise, nauticalDusk |-> naut.set,
         astronomicalDawn |-> astro.rise, astronomicalDusk |-> astro.set,
         darknessDuration |-> Null])))))

\* the condition guarding the nested call: both are Date objects (truthy)
NeedsNextDay(result) ==
    ~IsNull(result.astronomicalDusk) /\ ~IsNull(result.astronomicalDawn)

-----------------------------------------------------------------------------
(* parseCoordinate *)

(* A string is a sequence of one-character strings; "deg" stands for the   *)
(* degree sign and "dq" for the double quote.  A parsed number is held in  *)
(* thousandths (parseFloat), a returned coordinate in 1e-4 degrees.        *)

Digits == {"0", "1", "2", "3", "4", "5", "6", "7", "8", "9"}
Space == {" "}                                   \* \s
Chars == Digits \cup Space \cup
         {"+", "-", ".", ":", "h", "m", "s", "H", "M", "S", "deg", "'", "dq", "x"}
Str == Seq(Chars)

DigitValue[c \in Digits] ==
    CASE c = "0" -> 0 [] c = "1" -> 1 [] c = "2" -> 2 [] c = "3" -> 3 [] c = "4" -> 4
      [] c = "5" -> 5 [] c = "6" -> 6 [] c = "7" -> 7 [] c = "8" -> 8 [] c = "9" -> 9

\* the index after the longest run of characters of class at s[i..]
RunEnd[s \in Str, i \in Nat, class \in SUBSET Chars] ==
    IF i <= Len(s) /\ s[i] \in class THEN RunEnd[s, i + 1, class] ELSE i

\* the index after an optional character of class at s[i]
OptEnd[s \in Str, i \in Nat, class \in SUBSET Chars] ==
    IF i <= Len(s) /\ s[i] \in class THEN i + 1 ELSE i

\* the index after \d+\.?\d* at s[i..], or 0 when s[i] is no digit
NumberEnd[s \in Str, i \in Nat] ==
    IF RunEnd[s, i, Digits] = i THEN 0
    ELSE RunEnd[s, OptEnd[s, RunEnd[s, i, Digits], {"."}], Digits]

\* the index after a run of one or more characters of class, or 0
Run1End[s \in Str, i \in Nat, class \in SUBSET Chars] ==
    IF RunEnd[s, i, class] = i THEN 0 ELSE RunEnd[s, i, class]

\* the unsigned integer written by the digits of s
DigitsValue[s \in Str] ==
    IF s = <<>> THEN 0
    ELSE 10 * DigitsValue[SubSeq(s, 1, Len(s) - 1)] + DigitValue[s[Len(s)]]

\* the first three digits of a fraction, in thousandths
FractionValue[s \in Str] ==
    DigitsValue[SubSeq(s \o <<"0", "0", "0">>, 1, 3)]

\* parseFloat of a text of the form [+-]?\d+\.?\d*, in thousandths
parseFloat[s \in Str] ==
    LET signed == s # <<>> /\ s[1] \in {"+", "-"}
        first  == IF signed THEN 2 ELSE 1
        intEnd == RunEnd[s, first, Digits]
        whole  == DigitsValue[SubSeq(s, first, intEnd - 1)]
        frac   == FractionValue[SubSeq(s, intEnd + 1, Len(s))]
    IN  (IF signed /\ s[1] = "-" THEN -1 ELSE 1) * (whole * 1000 + frac)

\* str.trim()
RECURSIVE Trim(_)
Trim(s) ==
    IF s # <<>> /\ s[1] \in Space THEN Trim(Tail(s))
    ELSE IF s # <<>> /\ s[Len(s)] \in Space THEN Trim(SubSeq(s, 1, Len(s) - 1))
    ELSE s

\* str.match(/^([+-]?\d+\.?\d*)°?$/): the captured group, or null
DecimalMatch[s \in Str] ==
    LET e1 == NumberEnd[s, OptEnd[s, 1, {"+", "-"}]]
    IN  IF e1 # 0 /\ OptEnd[s, e1, {"deg"}] = Len(s) + 1
        THEN Some(<<SubSeq(s, 1, e1 - 1)>>)
        ELSE Null

\* the three groups of (first)(seps1)+(\d+)(seps2)+(\d+\.?\d*) matched at s[i..],
\* where the first group ends before e1, and the index after the third; or null
SexagesimalAt[s \in Str, i \in Nat, e1 \in Nat, seps1 \in SUBSET Chars, seps2 \in SUBSET Chars] ==
    LET s1 == IF e1 = 0 THEN 0 ELSE Run1End[s, e1, seps1]
        e2 == IF s1 = 0 THEN 0 ELSE Run1End[s, s1, Digits]
        s2 == IF e2 = 0 THEN 0 ELSE Run1End[s, e2, seps2]
        e3 == IF s2 = 0 THEN 0 ELSE NumberEnd[s, s2]
    IN  IF e3 = 0 THEN Null
        ELSE Some(<<SubSeq(s, i, e1 - 1), SubSeq(s, s1, e2 - 1), SubSeq(s, s2, e3 - 1), e3>>)

\* /(\d+)[h:\s]+(\d+)[m:\s]+(\d+\.?\d*)s?/i matched at s[i..]
HmsAt[s \in Str, i \in Nat] ==
    SexagesimalAt[s, i, Run1End[s, i, Digits],
                  {"h", "H", ":"} \cup Space, {"m", "M", ":"} \cup Space]

\* /([+-]?\d+)[°:\s]+(\d+)[\':\s]+(\d+\.?\d*)[\"s]?/i matched at s[i..]
DmsAt[s \in Str, i \in Nat] ==
    SexagesimalAt[s, i, Run1End[s, OptEnd[s, i, {"+", "-"}], Digits],
                  {"deg", ":"} \cup Space, {"'", ":"} \cup Space]

\* /(\d+\.?\d*)h/i matched at s[i..]
HourAt[s \in Str, i \in Nat] ==
    LET e1 == NumberEnd[s, i]
    IN  IF e1 # 0 /\ OptEnd[s, e1, {"h", "H"}] = e1 + 1
        THEN Some(<<SubSeq(s, i, e1 - 1)>>)
        ELSE Null

\* an unanchored match: the match at the leftmost position that has one
HmsMatch[s \in Str] ==
    IF \E i \in 1..Len(s) : HmsAt[s, i] # Null
    THEN HmsAt[s, CHOOSE i \in 1..Len(s) :
                      HmsAt[s, i] # Null /\ \A j \in 1..(i - 1) : HmsAt[s, j] = Null]
    ELSE Null

DmsMatch[s \in Str] ==
    IF \E i \in 1..Len(s) : DmsAt[s, i] # Null
    THEN DmsAt[s, CHOOSE i \in 1..Len(s) :
                      DmsAt[s, i] # Null /\ \A j \in 1..(i - 1) : DmsAt[s, j] = Null]
    ELSE Null

HourMatch[s \in Str] ==
    IF \E i \in 1..Len(s) : HourAt[s, i] # Null
    THEN HourAt[s, CHOOSE i \in 1..Len(s) :
                       HourAt[s, i] # Null /\ \A j \in 1..(i - 1) : HourAt[s, j] = Null]
    ELSE Null

\* (hours + minutes / 60 + seconds / 3600) * HOURS_TO_DEG, in 1e-4 degrees
HmsValue(g) ==
    RDiv(parseFloat[g[1]] * 3600 + parseFloat[g[2]] * 60 + parseFloat[g[3]],
         360 \div HOURS_TO_DEG)

\* sign * (degrees + minutes / 60 + seconds / 3600), in 1e-4 degrees
DmsValue(g) ==
    (IF g[1][1] = "-" THEN -1 ELSE 1) *
    RDiv(Abs[parseFloat[g[1]]] * 3600 + parseFloat[g[2]] * 60 + parseFloat[g[3]], 360)

\* the branch of parseCoordinate taken for the trimmed string s
\* the branches taken without regard to the type asked for
ParseBranchAnyType(s, type) ==
    IF DecimalMatch[s] # Null THEN "decimal"
    ELSE IF HmsMatch[s] # Null THEN "hms"
    ELSE IF HourMatch[s] # Null THEN "hour"
    ELSE IF DmsMatch[s] # Null THEN "dms"
    ELSE "none"

ParseBranch(s, type) ==
    IF DecimalMatch[s] # Null THEN "decimal"
    ELSE IF type = "ra" /\ HmsMatch[s] # Null THEN "hms"
    ELSE IF type = "ra" /\ HourMatch[s] # Null THEN "hour"
    ELSE IF type = "dec" /\ DmsMatch[s] # Null THEN "dms"
    ELSE "none"

\* parseCoordinate(str, type): a coordinate in 1e-4 degrees, or null
parseCoordinate(str, type) ==
    Bind(Trim(str), LAMBDA s :
    Bind(ParseBranch(s, type), LAMBDA branch :
        CASE branch = "decimal" -> Some(parseFloat[Val(DecimalMatch[s])[1]] * 10)
          [] branch = "hms"     -> Some(HmsValue(Val(HmsMatch[s])))
          [] branch = "hour"    -> Some(parseFloat[Val(HourMatch[s])[1]] * HOURS_TO_DEG * 10)
          [] branch = "dms"     -> Some(DmsValue(Val(DmsMatch[s])))
          [] OTHER              -> Null))

-----------------------------------------------------------------------------
(* calculateTwilightTimes as a process: one frame per activation *)

MaxCallDepth == 5       \* frames the engine's call stack holds before RangeError

\* observer latitudes, longitudes and dates the calls are made with
TwLatitudes == {-45 * MdPerDeg, 0, 60 * MdPerDeg, 68300, 80 * MdPerDeg}
TwLongitudes == {0, -75 * MdPerDeg}
\* 2026-03-20, 2026-03-28, 2026-04-20, 2026-06-21 and 2026-12-21, each at
\* 12:00 UTC
TwDates == {1774008000, 1774699200, 1776686400, 1782043200, 1797854400}
\* nextDate.setDate(nextDate.getDate() + 1) advances one local calendar day:
\* 24 hours, or 23 or 25 across a daylight-saving change of the host
LocalDayLengths == {23 * 3600, 24 * 3600, 25 * 3600}

TwTop == twStack[Len(twStack)]

\* no call of calculateTwilightTimes is under way
NoTwilight ==
    /\ twLat = 0
    /\ twLon = 0
    /\ twStack = <<>>
    /\ twRet = Null

\* the tables as the engine's source text gives them
TablesLoaded == tables = [BORTLE_SCALE |-> BORTLE_SCALE, PLANETS |-> PLANETS]

\* the AnimationController and the OrbitRenderer as their constructors leave
\* them (animation.js 6-13, orbit-renderer.js 12-17): playing, real-time, one
\* update a second, no timer, no callback; an empty history
ViewConstructed ==
    /\ animation = [isPlaying |-> TRUE, speed |-> 1, updateInterval |-> 1000,
                    timer |-> Null, onUpdate |-> Null]
    /\ trackHistory = <<>>
    /\ added = <<>>

\* no call of a pure function is under way
NoCall ==
    /\ call = [op |-> "none"]
    /\ ret = Null
    /\ loop = Null

TwInit ==
    /\ NoTwilight
    /\ TablesLoaded
    /\ ViewConstructed
    /\ NoCall

\* a caller invokes calculateTwilightTimes(lat, lon, date): the eight events
\* are computed and the activation stands before the darkness test
TwilightCall(lat, lon, date) ==
    /\ twStack = <<>>
    /\ twLat' = lat
    /\ twLon' = lon
    /\ twStack' = <<[result |-> TwilightEvents[lat, lon, date], pc |-> "body"]>>
    /\ twRet' = Null
    /\ UNCHANGED <<callVars, tables, viewVars>>

\* the activation on top has both astronomical events: it calls
\* calculateTwilightTimes(lat, lon, nextDate)
TwilightNestedCall(dayLength) ==
    /\ twStack # <<>>
    /\ TwTop.pc = "body"
    /\ NeedsNextDay(TwTop.result)
    /\ Len(twStack) < MaxCallDepth
    /\ twStack' = Append([twStack EXCEPT ![Len(twStack)].pc = "wait"],
                         [result |-> TwilightEvents[twLat, twLon,
                                                    TwTop.result.date + dayLength],
                          pc |-> "body"])
    /\ UNCHANGED <<twLat, twLon, twRet, callVars, tables, viewVars>>

\* the nested call does not fit the call stack: RangeError unwinds every frame
TwilightStackOverflow ==
    /\ twStack # <<>>
    /\ TwTop.pc = "body"
    /\ NeedsNextDay(TwTop.result)
    /\ Len(twStack) >= MaxCallDepth
    /\ twStack' = <<>>
    /\ twRet' = Some([error |-> "RangeError"])
    /\ UNCHANGED <<twLat, twLon, callVars, tables, viewVars>>

\* the result of a caller frame once its nested call has returned nextTwilight
WithDarkness(result, nextTwilight) ==
    IF IsNull(nextTwilight.astronomicalDawn) THEN result
    ELSE [result EXCEPT !.darknessDuration =
              Some(Val(nextTwilight.astronomicalDawn) - Val(result.astronomicalDusk))]

\* the activation on top returns its result
TwilightReturn ==
    /\ twStack # <<>>
    /\ \/ TwTop.pc = "body" /\ ~NeedsNextDay(TwTop.result)
       \/ TwTop.pc = "back"
    /\ IF Len(twStack) = 1
       THEN /\ twStack' = <<>>
            /\ twRet' = Some(TwTop.result)
       ELSE /\ twStack' = [SubSeq(twStack, 1, Len(twStack) - 1)
                              EXCEPT ![Len(twStack) - 1] =
                                  [result |-> WithDarkness(@.result, TwTop.result),
                                   pc |-> "back"]]
            /\ twRet' = twRet
    /\ UNCHANGED <<twLat, twLon, callVars, tables, viewVars>>

TwNext ==
    \/ \E lat \in TwLatitudes, lon \in TwLongitudes, date \in TwDates :
           TwilightCall(lat, lon, date)
    \/ \E dayLength \in LocalDayLengths : TwilightNestedCall(dayLength)
    \/ TwilightStackOverflow
    \/ TwilightReturn

SpecTwilight == TwInit /\ [][TwNext]_vars

\* C1: a call of calculateTwilightTimes makes at most one nested call, which
\* makes none: at no time are more than two activations of it on the stack.
C1_RecursionDepthAtMostTwo == Len(twStack) <= 2

\* the outermost call has returned a result record
TwilightReturned == twRet # Null /\ "error" \notin DOMAIN Val(twRet)

\* darknessDuration of a result when the next day is taken in UTC, 24 hours
\* on: in seconds, or null
DarknessInUTC(result) ==
    IF ~NeedsNextDay(result) THEN Null
    ELSE WithDarkness(result, TwilightEvents[twLat, twLon, result.date + SecPerDay])
             .darknessDuration

\* C14: calculateTwilightTimes is a function of (lat, lon, date) alone: under
\* every host time zone its result carries the darknessDuration that the
\* host whose local time is UTC gets.
C14_SameUnderAnyTimeZone ==
    TwilightReturned => Val(twRet).darknessDuration = DarknessInUTC(Val(twRet))

\* the eight events of a result record, from astronomicalDawn to
\* astronomicalDusk
EventsInOrder(result) ==
    <<result.astronomicalDawn, result.nauticalDawn, result.civilDawn,
      result.sunrise, result.sunset, result.civilDusk, result.nauticalDusk,
      result.astronomicalDusk>>

AllEventsDefined(result) == \A i \in 1..8 : ~IsNull(EventsInOrder(result)[i])

\* the result records at hand: the one of every activation and the one the
\* outermost call returned
TwilightResults ==
    {twStack[i].result : i \in 1..Len(twStack)} \cup
    (IF TwilightReturned THEN {Val(twRet)} ELSE {})

\* C28: in a result of calculateTwilightTimes with all eight events defined,
\* astronomicalDawn <= nauticalDawn <= civilDawn <= sunrise <= sunset <=
\* civilDusk <= nauticalDusk <= astronomicalDusk.
C28_EventsInOrder ==
    \A result \in TwilightResults :
        AllEventsDefined(result) =>
            \A i \in 1..7 : Val(EventsInOrder(result)[i]) <= Val(EventsInOrder(result)[i + 1])

\* C28: a call at latitude 60 has returned a result with all eight events,
\* its astronomical dawn before its sunrise
C28_Witness ==
    /\ TwilightReturned
    /\ twLat = 60 * MdPerDeg
    /\ AllEventsDefined(Val(twRet))
    /\ Val(Val(twRet).astronomicalDawn) < Val(Val(twRet).sunrise)

-----------------------------------------------------------------------------
(* Calls of parseCoordinate *)

MaxStrLen == 5          \* longest string built from ParseAlphabet

ParseAlphabet == {"1", "-", ":", "h", " "}

\* "12h 30m 45s", "12:30:45", "+41deg 16' 09dq", "-41:16:09", "-0:30:00",
\* "41.5", "-41.5deg", "12.5h", " x "
ParseExamples == {
    <<"1", "2", "h", " ", "3", "0", "m", " ", "4", "5", "s">>,
    <<"1", "2", ":", "3", "0", ":", "4", "5">>,
    <<"+", "4", "1", "deg", " ", "1", "6", "'", " ", "0", "9", "dq">>,
    <<"-", "4", "1", ":", "1", "6", ":", "0", "9">>,
    <<"-", "0", ":", "3", "0", ":", "0", "0">>,
    <<"4", "1", ".", "5">>,
    <<"-", "4", "1", ".", "5", "deg">>,
    <<"1", "2", ".", "5", "h">>,
    <<" ", "x", " ">> }

ParseStrings ==
    ParseExamples \cup UNION {[1..n -> ParseAlphabet] : n \in 0..MaxStrLen}

ParseTypes == {"ra", "dec"}

ParseInit ==
    /\ NoTwilight
    /\ TablesLoaded
    /\ ViewConstructed
    /\ call \in {[op |-> "parseCoordinate", str |-> s, type |-> t] :
                    s \in ParseStrings, t \in ParseTypes}
    /\ ret = Null
    /\ loop = Null

CallParseCoordinate ==
    /\ call.op = "parseCoordinate"
    /\ ret = Null
    /\ ret' = Some(parseCoordinate(call.str, call.type))
    /\ UNCHANGED <<call, loop, twVars, tables, viewVars>>

SpecParse == ParseInit /\ [][CallParseCoordinate]_vars

Parsed == call.op = "parseCoordinate" /\ ret # Null

\* the trimmed string has a form parseCoordinate accepts for the type
AcceptedFor(s, type) ==
    \/ DecimalMatch[s] # Null
    \/ type = "ra" /\ (HmsMatch[s] # Null \/ HourMatch[s] # Null)
    \/ type = "dec" /\ DmsMatch[s] # Null

\* C5: parseCoordinate returns a number or null (it never raises), and it
\* returns null exactly when the string has none of the forms accepted for
\* the type.
C5_NullIffNoPattern ==
    Parsed =>
        /\ Val(ret) = Null \/ (Len(Val(ret)) = 1 /\ Val(ret)[1] \in Int)
        /\ Val(ret) = Null <=> ~AcceptedFor(Trim(call.str), call.type)

\* C5: "12h 30m 45s" was parsed as a declination and gave null
C5_Witness ==
    /\ Parsed
    /\ call.str = <<"1", "2", "h", " ", "3", "0", "m", " ", "4", "5", "s">>
    /\ call.type = "dec"
    /\ Val(ret) = Null

\* the whole string is an hour form  h m s  (letters, colons or spaces)
WholeHourForm(s) ==
    /\ HmsAt[s, 1] # Null
    /\ OptEnd[s, Val(HmsAt[s, 1])[4], {"s", "S"}] = Len(s) + 1

\* the whole string is a degree form  [+-]d m s  (marks, colons or spaces)
WholeDegreeForm(s) ==
    /\ DmsAt[s, 1] # Null
    /\ OptEnd[s, Val(DmsAt[s, 1])[4], {"dq", "s", "S"}] = Len(s) + 1

\* C6: an hour form parses as ra to (h + m/60 + s/3600) * 15 and a degree
\* form parses as dec to sign * (d + m/60 + s/3600), the sign of the leading
\* component applied to the whole; and a sexagesimal string of the other
\* type's form only yields null.
C6_SexagesimalByType ==
    Parsed =>
        LET s == Trim(call.str)
        IN  /\ call.type = "ra" /\ WholeHourForm(s) /\ DecimalMatch[s] = Null
                => Val(ret) = Some(HmsValue(Val(HmsAt[s, 1])))
            /\ call.type = "dec" /\ WholeDegreeForm(s) /\ DecimalMatch[s] = Null
                => Val(ret) = Some(DmsValue(Val(DmsAt[s, 1])))
            /\ call.type = "dec" /\ WholeHourForm(s) /\ ~WholeDegreeForm(s)
                => Val(ret) = Null
            /\ call.type = "ra" /\ WholeDegreeForm(s) /\ ~WholeHourForm(s)
                => Val(ret) = Null

-----------------------------------------------------------------------------
(* Calls of calculateRiseTransitSet *)

RtsRightAscensions == {0, 90 * MdPerDeg, 187688, 359 * MdPerDeg}
RtsDeclinations ==
    {-90 * MdPerDeg, -60 * MdPerDeg, -30 * MdPerDeg, 0, 30 * MdPerDeg,
     60 * MdPerDeg, 85 * MdPerDeg, 90 * MdPerDeg}
RtsLatitudes ==
    {-90 * MdPerDeg, -60 * MdPerDeg, 0, 45 * MdPerDeg, 60 * MdPerDeg, 90 * MdPerDeg}
RtsLongitudes == {0, -75 * MdPerDeg, 179 * MdPerDeg}
RtsHorizonAngles ==
    {-REFRACTION_HORIZON, SUN_HORIZON_ANGLE, 0, TWILIGHT_ASTRONOMICAL}

RtsInit ==
    /\ NoTwilight
    /\ TablesLoaded
    /\ ViewConstructed
    /\ call \in {[op |-> "calculateRiseTransitSet", ra |-> ra, dec |-> dec,
                  lat |-> lat, lon |-> lon, date |-> date, horizonAngle |-> h0] :
                    ra \in RtsRightAscensions, dec \in RtsDeclinations,
                    lat \in RtsLatitudes, lon \in RtsLongitudes,
                    date \in TwDates, h0 \in RtsHorizonAngles}
    /\ ret = Null
    /\ loop = Null

CallCalculateRiseTransitSet ==
    /\ call.op = "calculateRiseTransitSet"
    /\ ret = Null
    /\ ret' = Some(calculateRiseTransitSet(call.ra, call.dec, call.lat, call.lon,
                                           call.date, call.horizonAngle))
    /\ UNCHANGED <<call, loop, twVars, tables, viewVars>>

SpecRts == RtsInit /\ [][CallCalculateRiseTransitSet]_vars

RtsReturned == call.op = "calculateRiseTransitSet" /\ ret # Null

\* C4: calculateRiseTransitSet returns one of three outcomes chosen by cosH:
\* below -1 circumpolar with rise and set null and transit defined; above 1
\* neverRises with rise, transit and set null; otherwise all three defined
\* with rise <= transit <= set.  The two tags are never both set.
C4_ThreeTaggedOutcomes ==
    RtsReturned =>
        LET r == Val(ret)
            cosH == CosHourAngle[call.horizonAngle, call.lat, call.dec]
        IN  /\ cosH < -Unit =>
                /\ r.circumpolar = Some(TRUE) /\ r.neverRises # Some(TRUE)
                /\ r.rise = Null /\ r.set = Null /\ r.transit # Null
            /\ cosH > Unit =>
                /\ r.neverRises = Some(TRUE) /\ r.circumpolar # Some(TRUE)
                /\ r.rise = Null /\ r.transit = Null /\ r.set = Null
            /\ (cosH >= -Unit /\ cosH <= Unit) =>
                /\ r.circumpolar # Some(TRUE) /\ r.neverRises # Some(TRUE)
                /\ r.rise # Null /\ r.transit # Null /\ r.set # Null
                /\ Val(r.rise) <= Val(r.transit)
                /\ Val(r.transit) <= Val(r.set)
            /\ ~(r.circumpolar = Some(TRUE) /\ r.neverRises = Some(TRUE))

\* C4: an object that never rises was asked for (declination -60 from
\* latitude 60) and the neverRises result came back
C4_Witness ==
    /\ RtsReturned
    /\ call.dec = -60 * MdPerDeg /\ call.lat = 60 * MdPerDeg
    /\ Val(ret).neverRises = Some(TRUE)
    /\ Val(ret).transit = Null

\* C16: in the normal outcome rise = transit - D and set = transit + D,
\* where D is the hour angle H as time, (H / 15) hours, divided by the
\* sidereal-to-solar ratio as calculateTransit divides its own offset.
C16_OffsetInSolarTime ==
    RtsReturned /\ Val(ret).circumpolar = Some(FALSE) /\ Val(ret).neverRises = Some(FALSE) =>
        LET H == ACos[CosHourAngle[call.horizonAngle, call.lat, call.dec]]
            D == SiderealToSolar[AngleToSeconds[H]]
        IN  /\ Val(Val(ret).rise) = Val(Val(ret).transit) - D
            /\ Val(Val(ret).set) = Val(Val(ret).transit) + D

-----------------------------------------------------------------------------
(* Calls of calculateTransit *)

\* 00:00 UTC of the date's UTC day and the local sidereal time then
MidnightOf(date) == date - (date % SecPerDay)
SiderealAtMidnight(lon, date) == lst[dateToJulian[MidnightOf(date)], lon]

TransitRightAscensions == {0, 90 * MdPerDeg, 187688, 359999}
\* right ascensions at, just short of and just past the two folds of the hour
\* angle: ra - lst0 of 0, -0.001, 179.999, 180 and 180.001 degrees
TransitFolds == {-1, 0, 180 * MdPerDeg - 1, 180 * MdPerDeg, 180 * MdPerDeg + 1}

TransitInit ==
    /\ NoTwilight
    /\ TablesLoaded
    /\ ViewConstructed
    /\ \E lon \in RtsLongitudes, date \in TwDates :
         \E ra \in TransitRightAscensions \cup
                   {normalizeAngle[SiderealAtMidnight(lon, date) + k] : k \in TransitFolds} :
            call = [op |-> "calculateTransit", ra |-> ra, lon |-> lon, date |-> date]
    /\ ret = Null
    /\ loop = Null

CallCalculateTransit ==
    /\ call.op = "calculateTransit"
    /\ ret = Null
    /\ ret' = Some(calculateTransit[call.ra, call.lon, call.date])
    /\ UNCHANGED <<call, loop, twVars, tables, viewVars>>

SpecTransit == TransitInit /\ [][CallCalculateTransit]_vars

TransitReturned == call.op = "calculateTransit" /\ ret # Null

\* C27: for ra in [0, 360) calculateTransit returns the midnight of the date's
\* UTC day plus d / 15 hours divided by the sidereal ratio, where d is
\* ra - lst0 normalized into (-180, 180]; so the transit is within 12 sidereal
\* hours of that midnight.
C27_SignedHourAngleFromMidnight ==
    TransitReturned =>
        LET midnight == MidnightOf(call.date)
            d == normalizeAngleSigned[call.ra - SiderealAtMidnight(call.lon, call.date)]
        IN  /\ d > -180 * MdPerDeg /\ d <= 180 * MdPerDeg
            /\ Val(ret) = midnight + SiderealToSolar[AngleToSeconds[d]]
            /\ Abs[Val(ret) - midnight] <= SiderealToSolar[12 * 3600]

\* C27: a right ascension 180.001 degrees ahead of the sidereal time at
\* midnight was asked for on a date past noon, and the transit returned is
\* before that midnight
C27_Witness ==
    /\ TransitReturned
    /\ call.date % SecPerDay >= 12 * 3600
    /\ normalizeAngle[call.ra - SiderealAtMidnight(call.lon, call.date)] = 180 * MdPerDeg + 1
    /\ Val(ret) < MidnightOf(call.date)

-----------------------------------------------------------------------------
(* Horizontal coordinates *)

\* A number that may be NaN is <<v>>, or <<>> for NaN, in this section.
NaN == <<>>

\* cosAz of raDecToAltAz and cosH of altAzToRaDec, clamped to [-1, 1] by
\* Math.max(-1, Math.min(1, x)); the divisor is never zero in
\* doubles, the quotient only has the dividend's sign where it vanishes here
CosAzimuth[num \in Int, den \in Int] ==
    IF den = 0 THEN Sgn[num] * Unit ELSE Clamp[RDiv(num * Unit, den)]

\* Math.sin(toRadians(angle)) > 0, for an angle between -360 and 360 degrees.
\* toRadians(180) is the double nearest pi, which is below pi: its sine is
\* 1.2e-16, above 0 (the sines of -180, 0 and 360 degrees are not).
SineIsPositive[angle \in Int] == Sin[angle] > 0 \/ angle = 180 * MdPerDeg

\* raDecToAltAz(ra, dec, lat, lst): Math.asin(sinAlt) is NaN when sinAlt is
\* beyond 1 in magnitude, and then so is every field
raDecToAltAz[ra \in Int, dec \in Int, lat \in Int, lst0 \in Int] ==
    Bind(lst0 - ra, LAMBDA ha :
    Bind(RDiv(Sin[dec] * Sin[lat], Unit)
            + RDiv(RDiv(Cos[dec] * Cos[lat], Unit) * Cos[ha], Unit), LAMBDA sinAlt :
        IF Abs[sinAlt] > Unit THEN [altitude |-> NaN, azimuth |-> NaN]
        ELSE Bind(ASin[sinAlt], LAMBDA altitude :
             Bind(ACos[CosAzimuth[Sin[dec] - RDiv(Sin[lat] * sinAlt, Unit),
                                  RDiv(Cos[lat] * Cos[altitude], Unit)]],
                  LAMBDA azimuth :
                [altitude |-> Some(altitude),
                 azimuth |-> Some(IF SineIsPositive[ha] THEN 360 * MdPerDeg - azimuth
                                  ELSE azimuth)]))))

\* altAzToRaDec(alt, az, lat, lst): Math.asin(sinDec) is NaN when sinDec is
\* beyond 1 in magnitude, and then so is every field
altAzToRaDec[alt \in Int, az \in Int, lat \in Int, lst0 \in Int] ==
    Bind(RDiv(Sin[alt] * Sin[lat], Unit)
            + RDiv(RDiv(Cos[alt] * Cos[lat], Unit) * Cos[az], Unit), LAMBDA sinDec :
        IF Abs[sinDec] > Unit THEN [ra |-> NaN, dec |-> NaN]
        ELSE Bind(ASin[sinDec], LAMBDA dec :
             Bind(ACos[CosAzimuth[Sin[alt] - RDiv(Sin[lat] * sinDec, Unit),
                                  RDiv(Cos[lat] * Cos[dec], Unit)]],
                  LAMBDA ha :
                [ra |-> Some(normalizeAngle[
                            lst0 - (IF SineIsPositive[az] THEN 360 * MdPerDeg - ha
                                    ELSE ha)]),
                 dec |-> Some(dec)])))

-----------------------------------------------------------------------------
(* Calls of raDecToAltAz and altAzToRaDec.  Angles are kept to 0.001 degree.
   At latitude +-90 the engine's azimuth is the quotient of two rounding
   errors, which this arithmetic does not follow: the calls are made from
   latitudes between the poles. *)

AltAzRightAscensions == {0, 120 * MdPerDeg}
AltAzDeclinations ==
    {-90 * MdPerDeg, -45 * MdPerDeg, 0, 8 * MdPerDeg, 45 * MdPerDeg,
     60 * MdPerDeg, 90 * MdPerDeg}
AltAzLatitudes == {-45 * MdPerDeg, 0, 8 * MdPerDeg, 45 * MdPerDeg}
AltAzSiderealTimes ==
    {0, 90 * MdPerDeg, 120 * MdPerDeg, 180 * MdPerDeg, 300 * MdPerDeg}

AltAzInit ==
    /\ NoTwilight
    /\ TablesLoaded
    /\ ViewConstructed
    /\ call \in {[op |-> "raDecToAltAz", ra |-> ra, dec |-> dec, lat |-> lat,
                   lst |-> lst0] :
                    ra \in AltAzRightAscensions, dec \in AltAzDeclinations,
                    lat \in AltAzLatitudes, lst0 \in AltAzSiderealTimes}
               \cup
               {[op |-> "altAzToRaDec", alt |-> alt, az |-> az, lat |-> lat,
                   lst |-> lst0] :
                    alt \in AltAzDeclinations, az \in AltAzSiderealTimes,
                    lat \in AltAzLatitudes, lst0 \in AltAzRightAscensions}
    /\ ret = Null
    /\ loop = Null

CallRaDecToAltAz ==
    /\ call.op = "raDecToAltAz"
    /\ ret = Null
    /\ ret' = Some(raDecToAltAz[call.ra, call.dec, call.lat, call.lst])
    /\ UNCHANGED <<call, loop, twVars, tables, viewVars>>

CallAltAzToRaDec ==
    /\ call.op = "altAzToRaDec"
    /\ ret = Null
    /\ ret' = Some(altAzToRaDec[call.alt, call.az, call.lat, call.lst])
    /\ UNCHANGED <<call, loop, twVars, tables, viewVars>>

AltAzNext ==
    \/ CallRaDecToAltAz
    \/ CallAltAzToRaDec

SpecAltAz == AltAzInit /\ [][AltAzNext]_vars

AltAzReturned == call.op = "raDecToAltAz" /\ ret # Null
RaDecReturned == call.op = "altAzToRaDec" /\ ret # Null

\* C17: no field of a result of raDecToAltAz or altAzToRaDec is NaN: what is
\* passed to asin and to acos is clamped to [-1, 1], also where the computed
\* sine passes 1 by a rounding error (an object at the zenith).
C17_NoFieldIsNaN ==
    /\ AltAzReturned => Val(ret).altitude # NaN /\ Val(ret).azimuth # NaN
    /\ RaDecReturned => Val(ret).ra # NaN /\ Val(ret).dec # NaN

\* C18, for the results that are numbers: raDecToAltAz returns an altitude in
\* [-90, 90] and an azimuth in [0, 360), never 360, and the azimuth is 180
\* or more exactly when sin(lst - ra) > 0.
C18_AzimuthBelow360 ==
    AltAzReturned /\ Val(ret).altitude # NaN /\ Val(ret).azimuth # NaN =>
        /\ Val(Val(ret).altitude) >= -90 * MdPerDeg
        /\ Val(Val(ret).altitude) <= 90 * MdPerDeg
        /\ Val(Val(ret).azimuth) >= 0
        /\ Val(Val(ret).azimuth) < 360 * MdPerDeg
        /\ Val(Val(ret).azimuth) >= 180 * MdPerDeg <=> Sin[call.lst - call.ra] > 0

-----------------------------------------------------------------------------
(* The Julian Date round trip, to the last bit of the doubles.  An instant
   is [day, sec]: the UTC day counted from 1970-01-01 and the whole second
   of that day.  A Julian Date between 2^21 and 2^22 (the years 1030 to
   6770) is a double whose last bit is 2^-31 day: it is kept as [z, f] with
   jd + 0.5 = z + f / 2^31. *)

\* the day of Date.UTC(year, month - 1, day), counted from 1970-01-01; a
\* year of 0..99 is taken as 1900 + year
DaysFromCivil[year \in Int, month \in Int, day \in Int] ==
    LET full == IF year >= 0 /\ year <= 99 THEN 1900 + year ELSE year
        y   == IF month <= 2 THEN full - 1 ELSE full
        era == y \div 400
        yoe == y - era * 400
        mp  == IF month > 2 THEN month - 3 ELSE month + 9
        doy == (153 * mp + 2) \div 5 + day - 1
        doe == yoe * 365 + yoe \div 4 - yoe \div 100 + doy
    IN  era * 146097 + doe - 719468

\* h / 24 added to the day number: sec / 86400 of a day rounded to the
\* nearest multiple of 2^-31 day (2^31 / 86400 = 2^24 / 675, and
\* 2^24 = 24855 * 675 + 91)
DayFraction[sec \in Int] ==
    (sec \div 675) * 2^24 + (sec % 675) * 24855 + RDiv((sec % 675) * 91, 675)

\* dateToJulian(date) as the double it returns
dateToJulianExact(date) ==
    [z |-> JulianDayNumber[CivilFromDays[date.day].y, CivilFromDays[date.day].m,
                           CivilFromDays[date.day].d],
     f |-> DayFraction[date.sec]]

\* floor(dayFrac * 86400): f * 675 / 2^24 rounded down, f taken in three
\* parts of 7, 12 and 12 bits; hours, mins and secs of julianToDate are the
\* digits of this count, their products being exact in doubles
SecondOfFraction[f \in Int] ==
    (f \div 2^24) * 675
      + (((f % 2^24) \div 2^12) * 675 + ((f % 2^12) * 675) \div 2^12) \div 2^12

\* julianToDate with every day number read in the Julian calendar
julianToDateNoReform(jd) ==
    LET b == jd.z + 1524
        c == Floor(100 * b - 12210, 36525)
        d == Floor(36525 * c, 100)
        e == Floor((b - d) * 10000, 306001)
        day == b - d - Floor(306001 * e, 10000)
        month == IF e < 14 THEN e - 1 ELSE e - 13
        year == IF month > 2 THEN c - 4716 ELSE c - 4715
    IN  [day |-> DaysFromCivil[year, month, day], sec |-> SecondOfFraction[jd.f]]

\* julianToDate(jd)
julianToDate(jd) ==
    LET alpha == Floor(100 * jd.z - 186721625, 3652425)
        a == IF jd.z >= 2299161 THEN jd.z + 1 + alpha - Floor(alpha, 4) ELSE jd.z
        b == a + 1524
        c == Floor(100 * b - 12210, 36525)
        d == Floor(36525 * c, 100)
        e == Floor((b - d) * 10000, 306001)
        day == b - d - Floor(306001 * e, 10000)
        month == IF e < 14 THEN e - 1 ELSE e - 13
        year == IF month > 2 THEN c - 4716 ELSE c - 4715
    IN  [day |-> DaysFromCivil[year, month, day], sec |-> SecondOfFraction[jd.f]]

\* civil days around the ends of months and years, leap days, the first day
\* of the Gregorian calendar, and two days before it
JulianCivilDays ==
    {<<1500, 3, 1>>, <<1582, 10, 14>>, <<1582, 10, 15>>, <<1599, 12, 31>>,
     <<1600, 2, 29>>, <<1900, 2, 28>>, <<1900, 3, 1>>, <<1999, 12, 31>>,
     <<2000, 1, 1>>, <<2000, 2, 29>>, <<2024, 2, 29>>, <<2024, 3, 1>>,
     <<2026, 3, 20>>, <<2026, 6, 30>>, <<2100, 2, 28>>, <<2100, 3, 1>>}
\* 00:00:00, 00:00:01, 00:00:59, 00:01:00, 00:59:59, 01:00:00, 08:30:00,
\* 11:59:59, 12:00:00, 23:59:59
JulianSeconds == {0, 1, 59, 60, 3599, 3600, 30600, 43199, 43200, 86399}

JulianInit ==
    /\ NoTwilight
    /\ TablesLoaded
    /\ ViewConstructed
    /\ call \in {[op |-> "dateToJulian",
                  date |-> [day |-> DaysFromCivil[c[1], c[2], c[3]], sec |-> sec]] :
                    c \in JulianCivilDays, sec \in JulianSeconds}
    /\ ret = Null
    /\ loop = Null

CallDateToJulian ==
    /\ call.op = "dateToJulian"
    /\ ret = Null
    /\ ret' = Some(dateToJulianExact(call.date))
    /\ UNCHANGED <<call, loop, twVars, tables, viewVars>>

\* julianToDate is called with the Julian Date that was returned
CallJulianToDate ==
    /\ call.op = "dateToJulian"
    /\ ret # Null
    /\ call' = [op |-> "julianToDate", jd |-> Val(ret), date |-> call.date]
    /\ ret' = Some(julianToDate(Val(ret)))
    /\ UNCHANGED <<loop, twVars, tables, viewVars>>

JulianNext ==
    \/ CallDateToJulian
    \/ CallJulianToDate

SpecJulian == JulianInit /\ [][JulianNext]_vars

RoundTripped == call.op = "julianToDate" /\ ret # Null

\* the Gregorian calendar starts on 1582-10-15
InGregorianCalendar(date) == date.day >= DaysFromCivil[1582, 10, 15]

\* seconds from the instant converted to the instant returned
RoundTripError == (Val(ret).day - call.date.day) * SecPerDay + Val(ret).sec - call.date.sec

\* C21: for an instant I with whole seconds on or after 1582-10-15,
\* julianToDate(dateToJulian(I)) is I or the second before I, on the UTC day
\* of I.
C21_WithinOneSecond ==
    RoundTripped /\ InGregorianCalendar(call.date) =>
        /\ RoundTripError \in {-1, 0}
        /\ Val(ret).day = call.date.day

\* C21: a leap day's last second came back unchanged, and 08:30:00 came
\* back as 08:29:59
C21_Witness ==
    /\ RoundTripped
    /\ \/ call.date = [day |-> DaysFromCivil[2024, 2, 29], sec |-> 86399] /\ RoundTripError = 0
       \/ call.date = [day |-> DaysFromCivil[2026, 3, 20], sec |-> 30600] /\ RoundTripError = -1

\* C21 as stated: the instant returned is within 1 second and has the year,
\* month, day, hour and minute of I.
C21_FieldsRecovered ==
    RoundTripped /\ InGregorianCalendar(call.date) =>
        /\ Abs[RoundTripError] <= 1
        /\ Val(ret).day = call.date.day
        /\ Val(ret).sec \div 60 = call.date.sec \div 60

-----------------------------------------------------------------------------
(* The phase of the Moon.  A Date is [day, ms]: the UTC day counted from
   1970-01-01 and the millisecond of that day.  A span of time is [s, f]:
   whole seconds and f tenths of a microsecond, 0 <= f < 10^7.  The spans
   are exact; the engine's doubles follow them within a twentieth of a
   millisecond, the last bit of a Julian Date. *)

TicksPerSec == 10^7

\* SYNODIC_MONTH = 29.530588853 days = 2551442.8768992 s
SYNODIC_MONTH == [s |-> 2551442, f |-> 8768992]
\* half of it
HalfSynodicMonth == [s |-> 1275721, f |-> 4384496]
\* NEW_MOON_REF = JD 2451550.1 = 2000-01-06 14:24 UTC, day 10962 at 51840 s
NEW_MOON_REF == [day |-> 10962, s |-> 51840]

SpanLess(a, b) == a.s < b.s \/ (a.s = b.s /\ a.f < b.f)
SpanMinus(a, b) ==
    IF a.f >= b.f THEN [s |-> a.s - b.s, f |-> a.f - b.f]
    ELSE [s |-> a.s - b.s - 1, f |-> a.f - b.f + TicksPerSec]
SpanPlus(a, b) ==
    IF a.f + b.f < TicksPerSec THEN [s |-> a.s + b.s, f |-> a.f + b.f]
    ELSE [s |-> a.s + b.s + 1, f |-> a.f + b.f - TicksPerSec]
SpanIsNegative(a) == a.s < 0

\* n synodic months: n * 8768992 ticks taken as n * 8768 thousands and
\* n * 992
Lunations[n \in Int] ==
    LET thousands == n * 8768 + (n * 992) \div 1000
    IN  [s |-> n * SYNODIC_MONTH.s + thousands \div 10^4,
         f |-> (thousands % 10^4) * 1000 + ((n * 992) % 1000)]

\* jd - NEW_MOON_REF
daysSinceNew(date) ==
    [s |-> (date.day - NEW_MOON_REF.day) * SecPerDay + date.ms \div 1000 - NEW_MOON_REF.s,
     f |-> (date.ms % 1000) * 10^4]

\* (lunations - floor(lunations)) * SYNODIC_MONTH
MoonAge(date) ==
    LET since == daysSinceNew(date)
        guess == since.s \div (SYNODIC_MONTH.s + 1)
        n == CHOOSE k \in (guess - 1)..(guess + 1) :
                /\ ~SpanIsNegative(SpanMinus(since, Lunations[k]))
                /\ SpanLess(SpanMinus(since, Lunations[k]), SYNODIC_MONTH)
    IN  SpanMinus(since, Lunations[n])

\* (age / SYNODIC_MONTH) * 360 in md, rounded down: three digits of the
\* quotient after the whole degrees
MoonPhaseAngle(age) ==
    LET whole == (age.s * 360) \div SYNODIC_MONTH.s
        rest  == (age.s * 360) % SYNODIC_MONTH.s
        cents == (rest * 100) \div SYNODIC_MONTH.s
        rest2 == (rest * 100) % SYNODIC_MONTH.s
    IN  Min[360 * MdPerDeg - 1, whole * 1000 + cents * 10 + (rest2 * 10) \div SYNODIC_MONTH.s]

\* the name of the phase
MoonPhaseName(phase) ==
    IF phase < 22500 THEN "New Moon"
    ELSE IF phase < 67500 THEN "Waxing Crescent"
    ELSE IF phase < 112500 THEN "First Quarter"
    ELSE IF phase < 157500 THEN "Waxing Gibbous"
    ELSE IF phase < 202500 THEN "Full Moon"
    ELSE IF phase < 247500 THEN "Waning Gibbous"
    ELSE IF phase < 292500 THEN "Last Quarter"
    ELSE IF phase < 337500 THEN "Waning Crescent"
    ELSE "New Moon"

\* the full-moon distance left as it is when negative
daysToFullUnwrapped(age) == SpanMinus(HalfSynodicMonth, age)

\* (0.5 - age / SYNODIC_MONTH) * SYNODIC_MONTH, plus SYNODIC_MONTH if negative
daysToFull(age) ==
    IF SpanIsNegative(SpanMinus(HalfSynodicMonth, age))
    THEN SpanPlus(SpanMinus(HalfSynodicMonth, age), SYNODIC_MONTH)
    ELSE SpanMinus(HalfSynodicMonth, age)

\* new Date(date.getTime() + span * 24 * 3600000): the sum is cut to whole
\* milliseconds, towards zero
DatePlus(date, span) ==
    LET cut == IF span.s < 0 /\ span.f % 10^4 # 0
               THEN [s |-> span.s, f |-> ((span.f \div 10^4) + 1) * 10^4]
               ELSE span
        ms == date.ms + (cut.s % SecPerDay) * 1000 + cut.f \div 10^4
    IN  [day |-> date.day + cut.s \div SecPerDay + ms \div (SecPerDay * 1000),
         ms |-> ms % (SecPerDay * 1000)]

\* calculateMoonPhase(date); the illumination is in hundredths of a percent
calculateMoonPhase(date) ==
    LET age == MoonAge(date)
    IN  [phase |-> normalizeAngle[MoonPhaseAngle(age)],
         illumination |-> (Unit - Cos[MoonPhaseAngle(age)]) \div 2,
         age |-> age,
         name |-> MoonPhaseName(normalizeAngle[MoonPhaseAngle(age)]),
         daysToNew |-> SpanMinus(SYNODIC_MONTH, age),
         daysToFull |-> daysToFull(age),
         nextNew |-> DatePlus(date, SpanMinus(SYNODIC_MONTH, age)),
         nextFull |-> DatePlus(date, daysToFull(age))]

\* days before and after the reference new moon, and days of 2024 and 2026
MoonDays ==
    {DaysFromCivil[1999, 1, 1], DaysFromCivil[2000, 1, 6], DaysFromCivil[2024, 5, 23],
     DaysFromCivil[2024, 8, 4], DaysFromCivil[2026, 3, 20], DaysFromCivil[2026, 4, 2],
     DaysFromCivil[2026, 4, 17], DaysFromCivil[2040, 12, 31]}
\* 00:00, 12:00, 14:24, the milliseconds around 01:44:27.385 (a mean full
\* moon of 2024-05-23) and around 21:34:34.577 (a mean new moon of
\* 2024-08-04)
MoonMillis ==
    {0, 43200000, 51840000, 6267384, 6267385, 6267386, 77674576, 77674577,
     77674578, 86399999}

MoonInit ==
    /\ NoTwilight
    /\ TablesLoaded
    /\ ViewConstructed
    /\ call \in {[op |-> "calculateMoonPhase", date |-> [day |-> d, ms |-> ms]] :
                    d \in MoonDays, ms \in MoonMillis}
    /\ ret = Null
    /\ loop = Null

CallCalculateMoonPhase ==
    /\ call.op = "calculateMoonPhase"
    /\ ret = Null
    /\ ret' = Some(calculateMoonPhase(call.date))
    /\ UNCHANGED <<call, loop, twVars, tables, viewVars>>

SpecMoon == MoonInit /\ [][CallCalculateMoonPhase]_vars

MoonReturned == call.op = "calculateMoonPhase" /\ ret # Null

\* a is before b
DateBefore(a, b) == a.day < b.day \/ (a.day = b.day /\ a.ms < b.ms)

\* the ranges of the fields of the result
MoonFieldsInRange ==
    /\ Val(ret).phase >= 0 /\ Val(ret).phase < 360 * MdPerDeg
    /\ Val(ret).illumination >= 0 /\ Val(ret).illumination <= Unit
    /\ ~SpanIsNegative(Val(ret).age) /\ SpanLess(Val(ret).age, SYNODIC_MONTH)
    /\ SpanLess([s |-> 0, f |-> 0], Val(ret).daysToNew)
    /\ ~SpanLess(SYNODIC_MONTH, Val(ret).daysToNew)
    /\ ~SpanIsNegative(Val(ret).daysToFull)
    /\ SpanLess(Val(ret).daysToFull, SYNODIC_MONTH)

\* C23: calculateMoonPhase returns phase in [0, 360), illumination in
\* [0, 100], age in [0, SYNODIC_MONTH), daysToNew in (0, SYNODIC_MONTH] and
\* daysToFull in [0, SYNODIC_MONTH); nextNew and nextFull are not before the
\* date.
C23_RangesAndNotBefore ==
    MoonReturned =>
        /\ MoonFieldsInRange
        /\ ~DateBefore(Val(ret).nextNew, call.date)
        /\ ~DateBefore(Val(ret).nextFull, call.date)

\* C23: a date after the full moon of its lunation, whose full-moon distance
\* was wrapped, and a date less than a millisecond before the new moon
C23_Witness ==
    /\ MoonReturned
    /\ \/ SpanLess(HalfSynodicMonth, Val(ret).age) /\ DateBefore(call.date, Val(ret).nextFull)
       \/ Val(ret).daysToNew.s = 0 /\ Val(ret).daysToNew.f < 10^4

\* C23 as stated: the same ranges, nextNew strictly after the date and
\* nextFull not before it.
C23_NextNewStrictlyAfter ==
    MoonReturned =>
        /\ MoonFieldsInRange
        /\ DateBefore(call.date, Val(ret).nextNew)
        /\ ~DateBefore(Val(ret).nextFull, call.date)

-----------------------------------------------------------------------------
(* Angle normalization, to the last bit of the doubles.  An angle is
   [md, q]: md thousandths of a degree plus q times 2^-46 degree, q being
   other than 0 only for an angle next to 0 or next to 360.  The doubles
   from 256 to 512 are the multiples of 2^-44. *)

\* n / 4 rounded to the nearest whole number, a half to the even one
RoundHalfEven[n \in Int] ==
    LET lo == n \div 4
        r  == n - 4 * lo
    IN  IF r < 2 THEN lo
        ELSE IF r > 2 THEN lo + 1
        ELSE IF lo % 2 = 0 THEN lo ELSE lo + 1

\* angle < 0
IsNegative(angle) == angle.md < 0 \/ (angle.md = 0 /\ angle.q < 0)

\* angle + 360 as the double the sum is rounded to
Plus360(angle) ==
    IF angle.md = 0
    THEN [md |-> 360 * MdPerDeg, q |-> 4 * RoundHalfEven[angle.q]]
    ELSE [md |-> angle.md + 360 * MdPerDeg, q |-> angle.q]

\* angle - 360, which is exact for an angle above 180
Minus360(angle) == [md |-> angle.md - 360 * MdPerDeg, q |-> angle.q]

\* angle % 360, which is exact and has the sign of the angle
Remainder360(angle) ==
    [md |-> Sgn[angle.md] * (Abs[angle.md] % (360 * MdPerDeg)), q |-> angle.q]

\* normalizeAngle(angle) on doubles
normalizeAngleExact(angle) ==
    IF IsNegative(Remainder360(angle)) THEN Plus360(Remainder360(angle))
    ELSE Remainder360(angle)

\* normalizeAngleSigned(angle) on doubles
normalizeAngleSignedExact(angle) ==
    IF normalizeAngleExact(angle).md > 180 * MdPerDeg
    THEN Minus360(normalizeAngleExact(angle))
    ELSE normalizeAngleExact(angle)

\* angles on and around the multiples of 180, and angles of a few 2^-46
\* degree
AngleMillidegrees ==
    {k * 180 * MdPerDeg + j : k \in -4..4, j \in {-1, 0, 1}} \cup {123456, -123456}
AngleInputs ==
    {[md |-> md, q |-> 0] : md \in AngleMillidegrees}
        \cup {[md |-> 0, q |-> q] : q \in -9..9}

AngleInit ==
    /\ NoTwilight
    /\ TablesLoaded
    /\ ViewConstructed
    /\ call \in {[op |-> op, angle |-> x] :
                    op \in {"normalizeAngle", "normalizeAngleSigned"}, x \in AngleInputs}
    /\ ret = Null
    /\ loop = Null

CallNormalizeAngle ==
    /\ call.op = "normalizeAngle"
    /\ ret = Null
    /\ ret' = Some(normalizeAngleExact(call.angle))
    /\ UNCHANGED <<call, loop, twVars, tables, viewVars>>

CallNormalizeAngleSigned ==
    /\ call.op = "normalizeAngleSigned"
    /\ ret = Null
    /\ ret' = Some(normalizeAngleSignedExact(call.angle))
    /\ UNCHANGED <<call, loop, twVars, tables, viewVars>>

AngleNext ==
    \/ CallNormalizeAngle
    \/ CallNormalizeAngleSigned

SpecAngle == AngleInit /\ [][AngleNext]_vars

\* a and b differ by a whole number of turns, to the rounding of the last
\* bit (half of 2^-44)
CongruentModulo360(a, b) ==
    (a.md - b.md) % (360 * MdPerDeg) = 0 /\ Abs[a.q - b.q] <= 2

\* C22: normalizeAngle(x) is in [0, 360), congruent to x modulo 360 and
\* left as it is by normalizeAngle; normalizeAngleSigned(x) is in
\* (-180, 180] and congruent to x modulo 360.
C22_NormalizedAndIdempotent ==
    /\ call.op = "normalizeAngle" /\ ret # Null =>
          /\ ~IsNegative(Val(ret))
          /\ IsNegative(Minus360(Val(ret)))
          /\ CongruentModulo360(Val(ret), call.angle)
          /\ normalizeAngleExact(Val(ret)) = Val(ret)
    /\ call.op = "normalizeAngleSigned" /\ ret # Null =>
          /\ Val(ret).md > -180 * MdPerDeg
          /\ Val(ret).md <= 180 * MdPerDeg
          /\ CongruentModulo360(Val(ret), call.angle)

-----------------------------------------------------------------------------
(* Display formatting.  The angle formatted is in millionths of a degree;
   a formatted coordinate is the record of the fields its template prints,
   each field being the text printed. *)

UdPerDeg == 10^6            \* millionths of a degree in a degree

DigitChar[d \in 0..9] ==
    CASE d = 0 -> "0" [] d = 1 -> "1" [] d = 2 -> "2" [] d = 3 -> "3" [] d = 4 -> "4"
      [] d = 5 -> "5" [] d = 6 -> "6" [] d = 7 -> "7" [] d = 8 -> "8" [] d = 9 -> "9"

\* String(n) of a whole number n >= 0
DecimalText[n \in Nat] ==
    IF n < 10 THEN <<DigitChar[n]>>
    ELSE DecimalText[n \div 10] \o <<DigitChar[n % 10]>>

\* (num / den).toFixed(digits) for num / den >= 0 and digits 0 or 1: the
\* value is rounded to the digits asked for, halves upwards, and written
\* with exactly that many decimals
toFixed(num, den, digits) ==
    IF digits = 0 THEN DecimalText[RDiv(num, den)]
    ELSE DecimalText[RDiv(10 * num, den) \div 10] \o <<".">>
            \o DecimalText[RDiv(10 * num, den) % 10]

\* normalizeAngle on millionths of a degree
NormalizeUd[angle \in Int] == angle % (360 * UdPerDeg)

\* formatRA(ra): `${h}h ${m}m ${s.toFixed(1)}s`.  inHour is (hours - h) and
\* inMinute is ((hours - h) * 60 - m), each as a count of the parts named by
\* its divisor; the seconds are inMinute * 60 with 60 taken out of the
\* divisor
formatRA(ra) ==
    LET hours == NormalizeUd[ra]
        h == hours \div (HOURS_TO_DEG * UdPerDeg)
        inHour == hours - h * HOURS_TO_DEG * UdPerDeg
        m == (inHour * 60) \div (HOURS_TO_DEG * UdPerDeg)
        inMinute == inHour * 60 - m * HOURS_TO_DEG * UdPerDeg
    IN  [h |-> DecimalText[h], m |-> DecimalText[m],
         s |-> toFixed(inMinute, (HOURS_TO_DEG * UdPerDeg) \div 60, 1)]

\* formatDec(dec): `${sign}${d}deg ${m}' ${s.toFixed(0)}"`, the seconds
\* inMinute * 60 / UdPerDeg with 20 taken out of both
formatDec(dec) ==
    LET d == Abs[dec] \div UdPerDeg
        inDegree == Abs[dec] - d * UdPerDeg
        m == (inDegree * 60) \div UdPerDeg
        inMinute == inDegree * 60 - m * UdPerDeg
    IN  [sign |-> IF dec >= 0 THEN "+" ELSE "-",
         d |-> DecimalText[d], m |-> DecimalText[m],
         s |-> toFixed(inMinute * 3, UdPerDeg \div 20, 0)]

\* whole degrees and parts of a degree of the angles formatted: 0.24983 and
\* 0.249999 degree are 59.96 s and 59.9998 s of time, 0.999861 and
\* 0.999999 degree are 59' 59.4996" and 59' 59.9964" of arc
FormatDegrees == {-90, -41, 0, 12, 41, 187, 359, 400}
FormatParts == {0, 123456, 249000, 249830, 249999, 500000, 999861, 999999}
FormatAngles == {d * UdPerDeg + f : d \in FormatDegrees, f \in FormatParts}

FormatInit ==
    /\ NoTwilight
    /\ TablesLoaded
    /\ ViewConstructed
    /\ call \in {[op |-> op, angle |-> a] :
                    op \in {"formatRA", "formatDec"}, a \in FormatAngles}
    /\ ret = Null
    /\ loop = Null

CallFormatRA ==
    /\ call.op = "formatRA"
    /\ ret = Null
    /\ ret' = Some(formatRA(call.angle))
    /\ UNCHANGED <<call, loop, twVars, tables, viewVars>>

CallFormatDec ==
    /\ call.op = "formatDec"
    /\ ret = Null
    /\ ret' = Some(formatDec(call.angle))
    /\ UNCHANGED <<call, loop, twVars, tables, viewVars>>

FormatNext ==
    \/ CallFormatRA
    \/ CallFormatDec

SpecFormat == FormatInit /\ [][FormatNext]_vars

Formatted == call.op \in {"formatRA", "formatDec"} /\ ret # Null

\* C20: formatRA prints hours in 0..23, minutes in 0..59 and seconds below
\* 60, formatDec a sign, minutes in 0..59 and seconds below 60; the seconds
\* field printed is never "60" or "60.0".
C20_NormalizedFields ==
    Formatted =>
        /\ call.op = "formatRA" => DigitsValue[Val(ret).h] \in 0..23
        /\ call.op = "formatDec" => Val(ret).sign \in {"+", "-"}
        /\ DigitsValue[Val(ret).m] \in 0..59
        /\ parseFloat[Val(ret).s] < 60 * 1000
        /\ Val(ret).s \notin {<<"6", "0">>, <<"6", "0", ".", "0">>}

-----------------------------------------------------------------------------
(* Visibility scoring: scores in 1e-4 points, magnitudes in thousandths *)

PointUnit == 10^4

\* parseFloat(s) for any text: the longest numeric prefix after leading
\* white space, in thousandths, or NaN
ParseFloatPrefix[s \in Str] ==
    LET first == RunEnd[s, 1, Space]
        start == OptEnd[s, first, {"+", "-"}]
        e1 == NumberEnd[s, start]
        e2 == IF start <= Len(s) /\ s[start] = "." THEN Run1End[s, start + 1, Digits]
              ELSE 0
    IN  IF e1 # 0 THEN Some(parseFloat[SubSeq(s, first, e1 - 1)])
        ELSE IF e2 # 0
        THEN Some((IF s[first] = "-" THEN -1 ELSE 1)
                  * FractionValue[SubSeq(s, start + 1, e2 - 1)])
        ELSE NaN

\* the test  altitude < 0  skipped
BelowHorizonNever(altitude) == FALSE

\* if (altitude < 0) return 0
BelowHorizon(altitude) == altitude < 0

\* the altitude factor, for an altitude in md
AltitudePoints[altitude \in Int] ==
    IF altitude < 15 * MdPerDeg THEN altitude * 15
    ELSE IF altitude < 30 * MdPerDeg THEN 225000 + (altitude - 15 * MdPerDeg) * 10
    ELSE IF altitude < 70 * MdPerDeg
    THEN 375000 + ((altitude - 30 * MdPerDeg) * 3125) \div 1000
    ELSE 500000 - (altitude - 70 * MdPerDeg) * 5

\* the brightness factor, for limitingMag - obj.magnitude (NaN when the
\* object has no magnitude: every comparison fails)
MagnitudePoints(magDiff) ==
    IF magDiff = NaN THEN 30 * PointUnit
    ELSE IF Val(magDiff) < -2000 THEN 0
    ELSE IF Val(magDiff) < 0 THEN (Val(magDiff) + 2000) * 50
    ELSE IF Val(magDiff) < 3000 THEN 10 * PointUnit + RDiv(Val(magDiff) * 667, 10)
    ELSE 30 * PointUnit

\* the size factor with no test of sizeArcmin against 5
SizePointsNoThreshold(size) ==
    IF size = <<>> THEN 0
    ELSE Bind(ParseFloatPrefix[size], LAMBDA parsed :
         Bind(IF parsed = NaN THEN 0 ELSE Val(parsed), LAMBDA sizeArcmin :
            Min[20 * PointUnit, (sizeArcmin * 10) \div 3]))

\* the size factor, for obj.size: null, or a text
SizePoints(size) ==
    IF size = <<>> THEN 0           \* null and the empty text are falsy
    ELSE Bind(ParseFloatPrefix[size], LAMBDA parsed :
         Bind(IF parsed = NaN THEN 0 ELSE Val(parsed), LAMBDA sizeArcmin :
            IF sizeArcmin > 5000 THEN Min[20 * PointUnit, (sizeArcmin * 10) \div 3]
            ELSE 0))

\* Math.round of a score
Round[score \in Int] == (score + PointUnit \div 2) \div PointUnit

\* limitingMag - obj.magnitude, NaN when the object has no magnitude
MagnitudeDifference(obj, limitingMag) ==
    IF obj.magnitude = Null THEN NaN ELSE Some(limitingMag - Val(obj.magnitude))

\* the rounded sum of the three factors for every altitude: neither the
\* return below the horizon nor the final Math.min and Math.max
calculateVisibilityScoreUnclamped(obj, altitude, limitingMag) ==
    Round[AltitudePoints[altitude]
          + MagnitudePoints(MagnitudeDifference(obj, limitingMag))
          + SizePoints(obj.size)]

\* calculateVisibilityScore(obj, altitude, limitingMag), in whole points
calculateVisibilityScore(obj, altitude, limitingMag) ==
    IF BelowHorizon(altitude) THEN 0
    ELSE Min[100, Max[0, Round[
            AltitudePoints[altitude]
            + MagnitudePoints(MagnitudeDifference(obj, limitingMag))
            + SizePoints(obj.size)]]]

-----------------------------------------------------------------------------
(* Ranking.  A catalog object is [ra, dec, magnitude, size]: ra and dec are
   [num |-> thousandths] or [str |-> text], magnitude is <<thousandths>> or
   null, size is a text or null. *)

\* Number(text) for the texts [+-]?\d+\.?\d* and the empty text, in
\* thousandths; NaN for any other text
ToNumber[s \in Str] ==
    IF Trim(s) = <<>> THEN Some(0)
    ELSE IF NumberEnd[Trim(s), OptEnd[Trim(s), 1, {"+", "-"}]] = Len(Trim(s)) + 1
    THEN Some(parseFloat[Trim(s)])
    ELSE NaN

\* a number below 24 is taken as hours
HoursToDegrees[ra \in Int] == IF ra < 24 * MdPerDeg THEN ra * HOURS_TO_DEG ELSE ra

\* the right ascension raDecToAltAz works with, in md or NaN: a text with an
\* h goes through parseCoordinate (null counts as 0), any other text counts
\* as the number it writes
RightAscensionOf(ra) ==
    IF "num" \in DOMAIN ra THEN Some(HoursToDegrees[ra.num])
    ELSE IF \E i \in 1..Len(ra.str) : ra.str[i] = "h"
    THEN Bind(parseCoordinate(ra.str, "ra"), LAMBDA parsed :
            IF parsed = Null THEN Some(0) ELSE Some(RDiv(Val(parsed), 10)))
    ELSE Bind(ToNumber[ra.str], LAMBDA n :
            IF n = NaN THEN NaN ELSE Some(HoursToDegrees[Val(n)]))

\* the declination raDecToAltAz works with, in md: a text goes through
\* parseCoordinate (null counts as 0)
DeclinationOf(dec) ==
    IF "num" \in DOMAIN dec THEN dec.num
    ELSE Bind(parseCoordinate(dec.str, "dec"), LAMBDA parsed :
            IF parsed = Null THEN 0 ELSE RDiv(Val(parsed), 10))

\* altAz of an object for an observer at latitude lat and sidereal time lst0
ObjectAltAz(obj, lat, lst0) ==
    Bind(RightAscensionOf(obj.ra), LAMBDA ra :
        IF ra = NaN THEN [altitude |-> NaN, azimuth |-> NaN]
        ELSE raDecToAltAz[Val(ra), DeclinationOf(obj.dec), lat, lst0])

\* an entry is kept whenever its altitude is a number
IsVisibleUnlessNaN(altitude) == altitude # NaN

\* isVisible: altAz.altitude > 0
IsVisible(altitude) == altitude # NaN /\ Val(altitude) > 0

\* isOptimal: altAz.altitude > 30 && altAz.altitude < 70
IsOptimal(altitude) ==
    altitude # NaN /\ Val(altitude) > 30 * MdPerDeg /\ Val(altitude) < 70 * MdPerDeg

\* the entry the map step makes of an object
RankEntry(obj, lat, lst0, limitingMag) ==
    Bind(ObjectAltAz(obj, lat, lst0), LAMBDA altAz :
        [obj |-> obj,
         currentAltitude |-> altAz.altitude,
         currentAzimuth |-> altAz.azimuth,
         visibilityScore |->
            IF altAz.altitude = NaN THEN NaN
            ELSE Some(calculateVisibilityScore(obj, Val(altAz.altitude), limitingMag)),
         isVisible |-> IsVisible(altAz.altitude),
         isOptimal |-> IsOptimal(altAz.altitude)])

\* the comparator read the other way round
KeepsOrderAscending(a, b) == Val(a.visibilityScore) <= Val(b.visibilityScore)

\* (a, b) => b.visibilityScore - a.visibilityScore is not positive: a stays
\* before b
KeepsOrder(a, b) == Val(b.visibilityScore) - Val(a.visibilityScore) <= 0

\* e put into a sorted list after every entry it must not come before
InsertSorted(sorted, e) ==
    Bind(Cardinality({i \in 1..Len(sorted) : KeepsOrder(sorted[i], e)}), LAMBDA k :
        SubSeq(sorted, 1, k) \o <<e>> \o SubSeq(sorted, k + 1, Len(sorted)))

\* Array.prototype.sort with the comparator: a stable sort
RECURSIVE SortByScore(_)
SortByScore(entries) ==
    IF entries = <<>> THEN <<>>
    ELSE InsertSorted(SortByScore(SubSeq(entries, 1, Len(entries) - 1)),
                      entries[Len(entries)])

\* rankObjectsByVisibility(objects, lat, lon, date, limitingMag)
rankObjectsByVisibility(objects, lat, lon, date, limitingMag) ==
    Bind(lst[dateToJulian[date], lon], LAMBDA localSiderealTime :
        SortByScore(SelectSeq([i \in 1..Len(objects) |->
                                  RankEntry(objects[i], lat, localSiderealTime,
                                            limitingMag)],
                              LAMBDA entry : entry.isVisible)))

-----------------------------------------------------------------------------
(* Calls of calculateVisibilityScore *)

ScoreAltitudes ==
    {-90 * MdPerDeg, -MdPerDeg, -1, 0, 1, 10 * MdPerDeg, 10332, 15 * MdPerDeg,
     29999, 30 * MdPerDeg, 45 * MdPerDeg, 70 * MdPerDeg, 90 * MdPerDeg}
\* no magnitude, -1.46, 2, 2.8, 2.801, 5.8, 7, 12.5
ScoreMagnitudes ==
    {Null, Some(-1460), Some(2000), Some(2800), Some(2801), Some(5800),
     Some(7000), Some(12500)}
\* no size, "3", "5", "6", "45", "90x40", "x"
ScoreSizes ==
    {Null, <<"3">>, <<"5">>, <<"6">>, <<"4", "5">>, <<"9", "0", "x", "4", "0">>, <<"x">>}
\* limiting magnitudes: the default 5.8, a city sky and a dark site
LimitingMagnitudes == {5800, 4000, 7500}

ScoreInit ==
    /\ NoTwilight
    /\ TablesLoaded
    /\ ViewConstructed
    /\ call \in {[op |-> "calculateVisibilityScore",
                  obj |-> [magnitude |-> m, size |-> z],
                  altitude |-> a, limitingMag |-> l] :
                    m \in ScoreMagnitudes, z \in ScoreSizes,
                    a \in ScoreAltitudes, l \in LimitingMagnitudes}
    /\ ret = Null
    /\ loop = Null

CallCalculateVisibilityScore ==
    /\ call.op = "calculateVisibilityScore"
    /\ ret = Null
    /\ ret' = Some(calculateVisibilityScore(call.obj, call.altitude, call.limitingMag))
    /\ UNCHANGED <<call, loop, twVars, tables, viewVars>>

SpecScore == ScoreInit /\ [][CallCalculateVisibilityScore]_vars

Scored == call.op = "calculateVisibilityScore" /\ ret # Null

\* C10: calculateVisibilityScore returns exactly 0 for every altitude below 0,
\* whatever the magnitude, the size and the limiting magnitude.
C10_ZeroBelowHorizon ==
    Scored /\ call.altitude < 0 => Val(ret) = 0

\* C10: a bright, large object one thousandth of a degree below the horizon
\* was scored
C10_Witness ==
    /\ Scored
    /\ call.altitude = -1
    /\ call.obj = [magnitude |-> Some(-1460), size |-> <<"4", "5">>]
    /\ Val(ret) = 0

\* C11: for every object, every altitude in [-90, 90] and every limiting
\* magnitude, calculateVisibilityScore returns a whole number of points from
\* 0 to 100.
C11_ScoreInRange ==
    Scored /\ call.altitude \in (-90 * MdPerDeg)..(90 * MdPerDeg)
        => Val(ret) \in 0..100

\* C11: the brightest star with a large size at 70 degrees scored the full
\* 100 points, and so did not pass it
C11_Witness ==
    /\ Scored
    /\ call.altitude = 70 * MdPerDeg
    /\ call.limitingMag = 5800
    /\ call.obj = [magnitude |-> Some(-1460), size |-> <<"9", "0", "x", "4", "0">>]
    /\ Val(ret) = 100

\* the three contributions of the call, in 1e-4 points
AltitudeContribution == AltitudePoints[call.altitude]
MagnitudeContribution ==
    MagnitudePoints(MagnitudeDifference(call.obj, call.limitingMag))
SizeContribution == SizePoints(call.obj.size)

\* C12: for an altitude in [0, 90] the altitude contribution is in [0, 50],
\* the magnitude contribution is in [0, 30] for every magnitude difference,
\* and 30 once the object is 3 or more magnitudes brighter than the limit,
\* and the size contribution is in [0, 20].
C12_ContributionsCapped ==
    Scored /\ call.altitude \in 0..(90 * MdPerDeg) =>
        /\ AltitudeContribution >= 0
        /\ AltitudeContribution <= 50 * PointUnit
        /\ MagnitudeContribution >= 0
        /\ MagnitudeContribution <= 30 * PointUnit
        /\ call.obj.magnitude # Null
                /\ call.limitingMag - Val(call.obj.magnitude) >= 3000
            => MagnitudeContribution = 30 * PointUnit
        /\ SizeContribution >= 0
        /\ SizeContribution <= 20 * PointUnit

\* obj.size as the number of arc minutes parseFloat reads, in thousandths;
\* 0 for no size and for a text that is no number
SizeArcmin ==
    IF call.obj.size = <<>> \/ ParseFloatPrefix[call.obj.size] = NaN THEN 0
    ELSE Val(ParseFloatPrefix[call.obj.size])

\* the score of the call when the size factor is bonus
ScoreWithBonus(bonus) ==
    Min[100, Max[0, Round[AltitudeContribution + MagnitudeContribution + bonus]]]

\* C13 as stated: at an altitude of 0 or more the size bonus in the score is
\* min(20, s/3) for every size s > 0, and 0 for an object with no size.
C13_SizeBonusForEverySize ==
    Scored /\ call.altitude >= 0 =>
        Val(ret) = ScoreWithBonus(IF SizeArcmin > 0
                                  THEN Min[20 * PointUnit, (SizeArcmin * 10) \div 3]
                                  ELSE 0)

\* C13: at an altitude of 0 or more the size bonus in the score is
\* min(20, s/3) for a size s above 5 arc minutes, and 0 for a size of 5 or
\* less and for an object with no size.
C13_SizeBonusAboveFive ==
    Scored /\ call.altitude >= 0 =>
        Val(ret) = ScoreWithBonus(IF SizeArcmin > 5000
                                  THEN Min[20 * PointUnit, (SizeArcmin * 10) \div 3]
                                  ELSE 0)

\* C13: an object of 3 arc minutes at 45 degrees was scored, and its size
\* added nothing to the score
C13_Witness ==
    /\ Scored
    /\ call.altitude = 45 * MdPerDeg
    /\ call.obj.size = <<"3">>
    /\ SizeArcmin = 3000
    /\ Val(ret) = ScoreWithBonus(0)
    /\ Val(ret) # ScoreWithBonus(PointUnit)

-----------------------------------------------------------------------------
(* Calls of rankObjectsByVisibility *)

MaxObjects == 3         \* longest list of objects ranked

\* ra 5.588 (hours), dec -5.39; "0h 42m 44s", "+41deg 16' 09dq";
\* ra 250.423 (degrees), dec 36.46; "12:30:49", "+12:23:28";
\* ra 18 (hours), dec -60, no magnitude, no size; "2.5h", "x"
Catalog == {
    [ra |-> [num |-> 5588], dec |-> [num |-> -5390],
     magnitude |-> Some(4000), size |-> <<"8", "5", "x", "6", "0">>],
    [ra |-> [str |-> <<"0", "h", " ", "4", "2", "m", " ", "4", "4", "s">>],
     dec |-> [str |-> <<"+", "4", "1", "deg", " ", "1", "6", "'", " ", "0", "9", "dq">>],
     magnitude |-> Some(3400), size |-> <<"1", "9", "0">>],
    [ra |-> [num |-> 250423], dec |-> [num |-> 36460],
     magnitude |-> Some(5800), size |-> <<"2", "0">>],
    [ra |-> [str |-> <<"1", "2", ":", "3", "0", ":", "4", "9">>],
     dec |-> [str |-> <<"+", "1", "2", ":", "2", "3", ":", "2", "8">>],
     magnitude |-> Some(8600), size |-> <<"7">>],
    [ra |-> [num |-> 18000], dec |-> [num |-> -60000],
     magnitude |-> Null, size |-> Null],
    [ra |-> [str |-> <<"2", ".", "5", "h">>], dec |-> [str |-> <<"x">>],
     magnitude |-> Some(2000), size |-> <<"3">>] }

ObjectLists == UNION {[1..n -> Catalog] : n \in 0..MaxObjects}

RankLatitudes == {0, 45 * MdPerDeg, -60 * MdPerDeg}
\* 2026-03-20 12:00 UTC and 2026-06-21 12:00 UTC
RankDates == {1774008000, 1782043200}

RankInit ==
    /\ NoTwilight
    /\ TablesLoaded
    /\ ViewConstructed
    /\ call \in {[op |-> "rankObjectsByVisibility", objects |-> objects,
                  lat |-> lat, lon |-> lon, date |-> date, limitingMag |-> l] :
                    objects \in ObjectLists, lat \in RankLatitudes,
                    lon \in TwLongitudes, date \in RankDates,
                    l \in {5800}}
    /\ ret = Null
    /\ loop = Null

CallRankObjectsByVisibility ==
    /\ call.op = "rankObjectsByVisibility"
    /\ ret = Null
    /\ ret' = Some(rankObjectsByVisibility(call.objects, call.lat, call.lon,
                                           call.date, call.limitingMag))
    /\ UNCHANGED <<call, loop, twVars, tables, viewVars>>

SpecRank == RankInit /\ [][CallRankObjectsByVisibility]_vars

Ranked == call.op = "rankObjectsByVisibility" /\ ret # Null

\* the altitude the engine computes for an object of the call, or NaN
ComputedAltitude(obj) ==
    ObjectAltAz(obj, call.lat, lst[dateToJulian[call.date], call.lon]).altitude

\* the right ascension of a catalog record in md as a reader of the catalog
\* takes it: a number below 24 is hours, a number of 24 or more is degrees,
\* a sexagesimal text is what parseCoordinate makes of it
StatedRightAscension(ra) ==
    IF "num" \in DOMAIN ra
    THEN Some(IF ra.num < 24 * MdPerDeg THEN 15 * ra.num ELSE ra.num)
    ELSE Bind(parseCoordinate(ra.str, "ra"), LAMBDA parsed :
            IF parsed = Null THEN NaN ELSE Some(RDiv(Val(parsed), 10)))

\* the altitude of the equivalent record whose right ascension is the
\* number of degrees stated
AltitudeOfEquivalent(obj) ==
    raDecToAltAz[Val(StatedRightAscension(obj.ra)), DeclinationOf(obj.dec), call.lat,
                 lst[dateToJulian[call.date], call.lon]].altitude

\* C19: a record whose RA is a number below 24 (hours, times 15), a number
\* of 24 or more (degrees) or a sexagesimal text ("12h 30m 45s" or
\* "12:30:45", through parseCoordinate) is ranked by the altitude of the
\* equivalent numeric record.
C19_RankedAsEquivalentNumeric ==
    Ranked =>
        \A i \in 1..Len(call.objects) :
            StatedRightAscension(call.objects[i].ra) # NaN =>
                ComputedAltitude(call.objects[i]) = AltitudeOfEquivalent(call.objects[i])

\* C2: no entry returned by rankObjectsByVisibility has currentAltitude <= 0,
\* and every returned entry has isVisible = true.
C2_OnlyAboveHorizon ==
    Ranked =>
        \A i \in 1..Len(Val(ret)) :
            /\ Val(ret)[i].isVisible = TRUE
            /\ Val(ret)[i].currentAltitude # NaN
            /\ Val(Val(ret)[i].currentAltitude) > 0

\* C2: a list holding an object below the horizon and one above it was
\* ranked, and only one entry came back
C2_Witness ==
    /\ Ranked
    /\ Len(call.objects) = 2
    /\ \E i \in 1..2 : /\ ComputedAltitude(call.objects[i]) # NaN
                       /\ Val(ComputedAltitude(call.objects[i])) < 0
    /\ Len(Val(ret)) = 1

\* C3: the list returned by rankObjectsByVisibility is in order of
\* non-increasing visibilityScore, and it holds exactly the input objects
\* whose computed altitude is above 0, each once.
C3_SortedAndExact ==
    Ranked =>
        /\ \A i \in 1..(Len(Val(ret)) - 1) :
               Val(Val(ret)[i].visibilityScore) >= Val(Val(ret)[i + 1].visibilityScore)
        /\ \A obj \in Catalog :
               Cardinality({i \in 1..Len(Val(ret)) : Val(ret)[i].obj = obj})
                 = Cardinality({i \in 1..Len(call.objects) :
                                   /\ call.objects[i] = obj
                                   /\ ComputedAltitude(obj) # NaN
                                   /\ Val(ComputedAltitude(obj)) > 0})

\* C3: three objects were ranked, all came back, and the one given last
\* was moved in front of the one given first
C3_Witness ==
    /\ Ranked
    /\ Len(call.objects) = 3
    /\ Len(Val(ret)) = 3
    /\ Val(ret)[1].obj = call.objects[3]
    /\ Val(Val(ret)[1].visibilityScore) > Val(Val(ret)[3].visibilityScore)

-----------------------------------------------------------------------------
(* The planetary operations *)

\* the all-lowercase property names every object inherits from
\* Object.prototype: PLANETS[name] finds a value for them too
InheritedNames == {"constructor", "__proto__"}

\* the names the planetary operations are called with
PlanetNames ==
    {"mercury", "venus", "earth", "mars", "jupiter", "saturn", "uranus", "neptune",
     "Venus", "EARTH", "Earth", "MARS", "pluto", "", "constructor", "__proto__"}

\* planetName.toLowerCase()
toLowerCase[name \in PlanetNames] ==
    CASE name = "Venus" -> "venus"
      [] name = "EARTH" -> "earth"
      [] name = "Earth" -> "earth"
      [] name = "MARS"  -> "mars"
      [] OTHER -> name

\* this.PLANETS[key]: the table's record, a member of Object.prototype (no
\* field of a planet is defined on it), or undefined
PlanetLookup(key) ==
    IF key \in DOMAIN PLANETS THEN [kind |-> "planet", planet |-> PLANETS[key]]
    ELSE IF key \in InheritedNames THEN [kind |-> "inherited"]
    ELSE [kind |-> "undefined"]

\* base + rate * julianCenturies(jd), for jd in seconds since J2000.0
PerCentury[base \in Int, rate \in Int, jd \in Int] ==
    base + (rate \div JULIAN_CENTURY) * (jd \div SecPerDay)
         + RDiv((rate % JULIAN_CENTURY) * (jd \div SecPerDay), JULIAN_CENTURY)
         + RDiv((rate \div JULIAN_CENTURY) * (jd % SecPerDay), SecPerDay)

\* getPlanetElements(planetName, jd): null, the elements for the date, or
\* elements that are all NaN (nan |-> TRUE) for an inherited member
getPlanetElements(planetName, jd) ==
    Bind(PlanetLookup(toLowerCase[planetName]), LAMBDA found :
        IF found.kind = "undefined" THEN Null
        ELSE IF found.kind = "inherited" THEN Some([nan |-> TRUE])
        ELSE Some([nan |-> FALSE,
                   a |-> PerCentury[found.planet.a, found.planet.aRate, jd],
                   e |-> PerCentury[found.planet.e, found.planet.eRate, jd],
                   I |-> PerCentury[found.planet.I, found.planet.IRate, jd],
                   L |-> normalizeAngle[PerCentury[found.planet.L,
                                                   found.planet.LRate, jd]],
                   longPeri |-> PerCentury[found.planet.longPeri,
                                           found.planet.longPeriRate, jd],
                   longNode |-> PerCentury[found.planet.longNode,
                                           found.planet.longNodeRate, jd],
                   synodicPeriod |-> found.planet.synodicPeriod]))


RadToMd == 57296            \* toDegrees(1), in md
KeplerIterations == 10

\* toDegrees(e * Math.sin(E)) in md, for e scaled by Unit
EccentricTerm[e \in Int, E \in Int] == RDiv(RDiv(e * Sin[E], Unit) * RadToMd, Unit)

\* the loop solving Kepler's equation from its i-th pass on: it ends after
\* the pass whose correction is below the resolution, or after the tenth
SolveKepler[M \in Int, e \in Int, E \in Int, i \in Nat] ==
    IF i >= KeplerIterations THEN E
    ELSE Bind(RDiv((M - E + EccentricTerm[e, E]) * Unit, Unit - RDiv(e * Cos[E], Unit)),
              LAMBDA dE :
                  IF Abs[dE] < 1 THEN E + dE
                  ELSE SolveKepler[M, e, E + dE, i + 1])

\* The loop again, pass by pass, with the anomalies in 1e-5 degree so that a
\* correction is compared with 0.0001 degree itself.

FinePerMd == 10^2
\* Math.abs(dE) < 0.0001
KeplerTolerance == 10

\* toDegrees(e * Math.sin(ERad)) in 1e-5 degree
FineEccentricTerm[e \in Int, E \in Int] ==
    RDiv(RDiv(e * Sin[RDiv(E, FinePerMd)], Unit) * RadToMd, 100)

\* num * Unit / den for den > 0, without passing 2^31
ScaledQuotient[num \in Int, den \in Int] ==
    Sgn[num] * ((Abs[num] \div den) * Unit + ((Abs[num] % den) * Unit) \div den)

\* dE of a pass that starts from E
KeplerCorrection[M \in Int, e \in Int, E \in Int] ==
    ScaledQuotient[M - E + FineEccentricTerm[e, E],
                   Unit - RDiv(e * Cos[RDiv(E, FinePerMd)], Unit)]

\* the loop is never left by its break
IsConvergedNever(dE) == FALSE

\* if (Math.abs(dE) < 0.0001) break
IsConverged(dE) == Abs[dE] < KeplerTolerance

\* eccentricities 0, 0.0167, 0.0934, 0.2056, 0.6, 0.9, 0.99 and 0.995
KeplerEccentricities == {0, 167, 934, 2056, 6000, 9000, 9900, 9950}
\* mean anomalies 0, 1, 5, 30, 90, 179, 180, 270, 355 and 359.9 degrees
KeplerAnomalies ==
    {0, 100000, 500000, 3000000, 9000000, 17900000, 18000000, 27000000,
     35500000, 35990000}

KeplerInit ==
    /\ NoTwilight
    /\ TablesLoaded
    /\ ViewConstructed
    /\ call \in {[op |-> "solveKepler", M |-> M, e |-> e] :
                    M \in KeplerAnomalies, e \in KeplerEccentricities}
    /\ ret = Null
    /\ loop = Null

\* let E = M + toDegrees(e) * sin(M); i = 0
KeplerEnter ==
    /\ call.op = "solveKepler"
    /\ ret = Null /\ loop = Null
    /\ loop' = Some([E |-> call.M + FineEccentricTerm[call.e, call.M], i |-> 0,
                     broke |-> FALSE, corrections |-> <<>>])
    /\ UNCHANGED <<call, ret, twVars, tables, viewVars>>

\* one pass: E += dE, then break or i++
KeplerPass ==
    /\ call.op = "solveKepler"
    /\ ret = Null /\ loop # Null
    /\ ~Val(loop).broke
    /\ Val(loop).i < KeplerIterations
    /\ \E dE \in {KeplerCorrection[call.M, call.e, Val(loop).E]} :
         loop' = Some([E |-> Val(loop).E + dE,
                       i |-> IF IsConverged(dE) THEN Val(loop).i ELSE Val(loop).i + 1,
                       broke |-> IsConverged(dE),
                       corrections |-> Append(Val(loop).corrections, dE)])
    /\ UNCHANGED <<call, ret, twVars, tables, viewVars>>

\* the loop is left, by its break or by its condition
KeplerLeave ==
    /\ call.op = "solveKepler"
    /\ ret = Null /\ loop # Null
    /\ Val(loop).broke \/ Val(loop).i >= KeplerIterations
    /\ ret' = Some(Val(loop).E)
    /\ UNCHANGED <<call, loop, twVars, tables, viewVars>>

KeplerNext ==
    \/ KeplerEnter
    \/ KeplerPass
    \/ KeplerLeave

\* a step of the loop is always taken when one can be
SpecKepler == KeplerInit /\ [][KeplerNext]_vars /\ WF_vars(KeplerNext)

\* at most 10 corrections were applied, and none but the last is below
\* 0.0001 degree; once the loop is left, 10 were applied or the last is
\* below 0.0001 degree
KeplerBounded ==
    loop # Null =>
        /\ Len(Val(loop).corrections) <= 10
        /\ \A j \in 1..(Len(Val(loop).corrections) - 1) :
               Abs[Val(loop).corrections[j]] >= 10
        /\ ret # Null =>
              \/ Len(Val(loop).corrections) = 10
              \/ Abs[Val(loop).corrections[Len(Val(loop).corrections)]] < 10

\* C26: the Kepler loop applies at most 10 corrections, stops right after
\* the first correction below 0.0001 degree, and ends for every
\* eccentricity and mean anomaly.
C26_AtMostTenCorrectionsAndEnds == []KeplerBounded /\ <>(ret # Null)

\* C26: a loop that was left by its break after several corrections, and a
\* loop that applied all 10
C26_Witness ==
    /\ ret # Null
    /\ loop # Null
    /\ \/ Val(loop).broke /\ Len(Val(loop).corrections) \in 2..9
       \/ Len(Val(loop).corrections) = 10

\* the position in the orbital plane for eccentric anomaly E: [xv, yv]
OrbitalPlane[a \in Int, e \in Int, E \in Int] ==
    [xv |-> RDiv(a * (Cos[E] - e), Unit),
     yv |-> RDiv(RDiv(a * Sqrt[Unit * Unit - e * e], Unit) * Sin[E], Unit)]

\* heliocentric ecliptic x, y, z at distance r, for u = v + omega
Ecliptic[r \in Int, u \in Int, node \in Int, I \in Int] ==
    [x |-> RDiv(r * (RDiv(Cos[node] * Cos[u], Unit)
                     - RDiv(RDiv(Sin[node] * Sin[u], Unit) * Cos[I], Unit)), Unit),
     y |-> RDiv(r * (RDiv(Sin[node] * Cos[u], Unit)
                     + RDiv(RDiv(Cos[node] * Sin[u], Unit) * Cos[I], Unit)), Unit),
     z |-> RDiv(r * RDiv(Sin[u] * Sin[I], Unit), Unit)]

\* calculateHeliocentricPosition once the elements are known
HeliocentricFrom(elements) ==
    Bind(normalizeAngle[elements.L - elements.longPeri], LAMBDA M :
    Bind(SolveKepler[M, elements.e, M + EccentricTerm[elements.e, M], 0], LAMBDA E :
    Bind(OrbitalPlane[elements.a, elements.e, E], LAMBDA op :
    Bind(ATan2[op.yv, op.xv], LAMBDA v :
    Bind(Sqrt[op.xv * op.xv + op.yv * op.yv], LAMBDA r :
    Bind(Ecliptic[r, v + elements.longPeri - elements.longNode,
                  elements.longNode, elements.I], LAMBDA h :
        [nan |-> FALSE,
         longitude |-> normalizeAngle[ATan2[h.y, h.x]],
         latitude |-> ATan2[h.z, Sqrt[h.x * h.x + h.y * h.y]],
         distance |-> r,
         x |-> h.x, y |-> h.y, z |-> h.z,
         trueAnomaly |-> v,
         meanAnomaly |-> M]))))))

\* calculateHeliocentricPosition(planetName, date): null, a position, or a
\* position whose every field is NaN (nan |-> TRUE)
calculateHeliocentricPosition(planetName, date) ==
    Bind(getPlanetElements(planetName, dateToJulian[date]), LAMBDA elements :
        IF elements = Null THEN Null
        ELSE IF Val(elements).nan THEN Some([nan |-> TRUE])
        ELSE Some(HeliocentricFrom(Val(elements))))

\* angularDistance(ra1, dec1, ra2, dec2)
angularDistance[ra1 \in Int, dec1 \in Int, ra2 \in Int, dec2 \in Int] ==
    ACos[Clamp[RDiv(Sin[dec1] * Sin[dec2], Unit)
               + RDiv(RDiv(Cos[dec1] * Cos[dec2], Unit) * Cos[ra2 - ra1], Unit)]]

\* the equatorial coordinates of ecliptic longitude lon and latitude lat
EclipticToEquatorial[lon \in Int, lat \in Int, epsilon \in Int] ==
    [ra  |-> ATan2[RDiv(Sin[lon] * Cos[epsilon], Unit)
                     - RDiv(RDiv(Sin[lat] * Unit, Cos[lat]) * Sin[epsilon], Unit),
                   Cos[lon]],
     dec |-> ASin[RDiv(Sin[lat] * Cos[epsilon], Unit)
                  + RDiv(RDiv(Cos[lat] * Sin[epsilon], Unit) * Sin[lon], Unit)]]

\* the geocentric position of a planet at heliocentric x, y, z, distance r,
\* seen from the earth at ex, ey, ez.  The phase angle, the illumination and
\* the angular diameter of the record are left out.
GeocentricFrom[x \in Int, y \in Int, z \in Int, r \in Int, ex \in Int, ey \in Int, ez \in Int, date \in Int] ==
    Bind(ATan2[y - ey, x - ex], LAMBDA lonEcl :
    Bind(ATan2[z - ez, Sqrt[(x - ex) * (x - ex) + (y - ey) * (y - ey)]], LAMBDA latEcl :
    Bind(EclipticToEquatorial[lonEcl, latEcl, meanObliquity[dateToJulian[date]]],
         LAMBDA eq :
    Bind(approximateSunPosition[date], LAMBDA sunPos :
        [nan |-> FALSE,
         ra |-> normalizeAngle[eq.ra],
         dec |-> eq.dec,
         distance |-> Sqrt[(x - ex) * (x - ex) + (y - ey) * (y - ey)
                           + (z - ez) * (z - ez)],
         distanceSun |-> r,
         elongation |-> angularDistance[normalizeAngle[eq.ra], eq.dec,
                                        sunPos.ra, sunPos.dec],
         eclipticLongitude |-> normalizeAngle[lonEcl],
         eclipticLatitude |-> latEcl]))))

\* the name is taken for the earth whatever it is
IsEarthNever(planetName) == FALSE

\* planetName.toLowerCase() === 'earth'
IsEarth(planetName) == toLowerCase[planetName] = "earth"

\* calculatePlanetPosition(planetName, date): null, a position record, or a
\* record whose every number is NaN (nan |-> TRUE)
calculatePlanetPosition(planetName, date) ==
    IF IsEarth(planetName) THEN Null
    ELSE Bind(calculateHeliocentricPosition(planetName, date), LAMBDA planet :
         Bind(calculateHeliocentricPosition("earth", date), LAMBDA earth :
            IF planet = Null \/ earth = Null THEN Null
            ELSE IF Val(planet).nan THEN Some([nan |-> TRUE])
            ELSE Some(GeocentricFrom[Val(planet).x, Val(planet).y, Val(planet).z,
                                     Val(planet).distance,
                                     Val(earth).x, Val(earth).y, Val(earth).z, date])))


\* isPlanetRetrograde(planetName, date): null, or a record (of NaN and
\* isRetrograde false when the positions are NaN)
isPlanetRetrograde(planetName, date) ==
    Bind(calculatePlanetPosition(planetName, date), LAMBDA today :
    Bind(calculatePlanetPosition(planetName, date + SecPerDay), LAMBDA tomorrow :
        IF today = Null \/ tomorrow = Null THEN Null
        ELSE IF Val(today).nan \/ Val(tomorrow).nan
        THEN Some([nan |-> TRUE, isRetrograde |-> FALSE])
        ELSE Bind(Val(tomorrow).eclipticLongitude - Val(today).eclipticLongitude,
                  LAMBDA d0 :
             Bind(IF d0 > 180 * MdPerDeg THEN d0 - 360 * MdPerDeg ELSE d0, LAMBDA d1 :
             Bind(IF d1 < -180 * MdPerDeg THEN d1 + 360 * MdPerDeg ELSE d1,
                  LAMBDA deltaLon :
                Some([nan |-> FALSE,
                      isRetrograde |-> deltaLon < 0,
                      angularSpeed |-> deltaLon,
                      eclipticLongitude |-> Val(today).eclipticLongitude]))))))

\* calculatePlanetRiseTransitSet(planetName, lat, lon, date): null, or the
\* result of calculateRiseTransitSet (for a NaN position every comparison
\* with cosH fails and the three dates are invalid)
calculatePlanetRiseTransitSet(planetName, lat, lon, date) ==
    Bind(calculatePlanetPosition(planetName, date), LAMBDA pos :
        IF pos = Null THEN Null
        ELSE IF Val(pos).nan
        THEN Some([nan |-> TRUE, circumpolar |-> Some(FALSE), neverRises |-> Some(FALSE)])
        ELSE Some(calculateRiseTransitSet(Val(pos).ra, Val(pos).dec, lat, lon, date,
                                          -REFRACTION_HORIZON)))

-----------------------------------------------------------------------------
(* Calls of the planetary operations *)

PlanetInit ==
    /\ NoTwilight
    /\ TablesLoaded
    /\ ViewConstructed
    /\ call \in {[op |-> op, planetName |-> n, date |-> d, lat |-> lat, lon |-> 0] :
                    op \in {"calculatePlanetPosition", "isPlanetRetrograde",
                            "calculatePlanetRiseTransitSet"},
                    n \in PlanetNames, d \in TwDates, lat \in TwLatitudes}
    /\ ret = Null
    /\ loop = Null

CallCalculatePlanetPosition ==
    /\ call.op = "calculatePlanetPosition"
    /\ ret = Null
    /\ ret' = Some(calculatePlanetPosition(call.planetName, call.date))
    /\ UNCHANGED <<call, loop, twVars, tables, viewVars>>

CallIsPlanetRetrograde ==
    /\ call.op = "isPlanetRetrograde"
    /\ ret = Null
    /\ ret' = Some(isPlanetRetrograde(call.planetName, call.date))
    /\ UNCHANGED <<call, loop, twVars, tables, viewVars>>

CallCalculatePlanetRiseTransitSet ==
    /\ call.op = "calculatePlanetRiseTransitSet"
    /\ ret = Null
    /\ ret' = Some(calculatePlanetRiseTransitSet(call.planetName, call.lat,
                                                 call.lon, call.date))
    /\ UNCHANGED <<call, loop, twVars, tables, viewVars>>

PlanetNext ==
    \/ CallCalculatePlanetPosition
    \/ CallIsPlanetRetrograde
    \/ CallCalculatePlanetRiseTransitSet

SpecPlanet == PlanetInit /\ [][PlanetNext]_vars

PlanetReturned ==
    /\ call.op \in {"calculatePlanetPosition", "isPlanetRetrograde",
                    "calculatePlanetRiseTransitSet"}
    /\ ret # Null

\* C7: calculatePlanetPosition returns null when the name is 'earth' in any
\* letter case or is no key of the planetary element table, and a position
\* record for each of the seven other planets; isPlanetRetrograde and
\* calculatePlanetRiseTransitSet return null in the same cases.
C7_NullForEarthAndUnknownNames ==
    PlanetReturned =>
        LET key == toLowerCase[call.planetName]
        IN  /\ (key = "earth" \/ key \notin DOMAIN PLANETS) => Val(ret) = Null
            /\ (call.op = "calculatePlanetPosition"
                  /\ key \in DOMAIN PLANETS \ {"earth"}) => Val(ret) # Null

-----------------------------------------------------------------------------
(* The day-stepped searches as processes: one action per pass of the loop.
   loop is [date, day, passes, maxElong, maxDate]; day is the loop counter
   and passes counts the passes made. *)

MaxPasses == 1200       \* passes after which a search is no longer followed

\* planet.a < 1 (false when a is undefined)
IsInferiorNever(found) == FALSE

IsInferior(found) == found.kind = "planet" /\ found.planet.a < 1000

\* planet.a >= 1 (false when a is undefined)
IsSuperior(found) == found.kind = "planet" /\ found.planet.a >= 1000

\* day < maxDays for maxDays = synodicPeriod * 1.5, or 800 when the planet
\* has no synodic period (null, or undefined on an inherited member)
EventLoopGoesOn(found, day) ==
    IF found.kind = "planet" /\ found.planet.synodicPeriod # Null
    THEN day * 200 < Val(found.planet.synodicPeriod) * 3
    ELSE day < 800

\* day < maxDays for maxDays = synodicPeriod * 1.5, which is NaN on an
\* inherited member: the comparison fails
ElongationLoopGoesOn(found, day) ==
    /\ found.kind = "planet"
    /\ found.planet.synodicPeriod # Null
    /\ day * 200 < Val(found.planet.synodicPeriod) * 3

\* the loop counter after  continue  if the update of the for statement
\* were skipped
AfterContinueSameDay(day) == day

\* the loop counter after  continue: the for statement's day++ still runs
AfterContinue(day) == day + 1

SearchFound == PlanetLookup(toLowerCase[call.planetName])

SearchStart ==
    [date |-> call.startDate, day |-> 0, passes |-> 0, maxElong |-> 0, maxDate |-> Null]

\* calculateNextPlanetaryEvent up to its loop
EventEnter ==
    /\ call.op = "calculateNextPlanetaryEvent"
    /\ ret = Null /\ loop = Null
    /\ IF SearchFound.kind = "undefined"
          \/ (IsInferior(SearchFound) /\ call.event = "opposition")
       THEN ret' = Some(Null) /\ loop' = loop
       ELSE ret' = ret /\ loop' = Some(SearchStart)
    /\ UNCHANGED <<call, twVars, tables, viewVars>>

\* the elongation the event is searched at
TargetElongation(event) == IF event = "opposition" THEN 180 * MdPerDeg ELSE 0

\* the day of the pass is the event: within a degree of the target, and the
\* next day's elongation is on the far side of the extremum
IsEventDay(pos, nextPos, event) ==
    /\ ~pos.nan
    /\ Abs[pos.elongation - TargetElongation(event)] < MdPerDeg
    /\ nextPos # Null
    /\ ~Val(nextPos).nan
    /\ IF event = "opposition" THEN Val(nextPos).elongation < pos.elongation
       ELSE Val(nextPos).elongation > pos.elongation

\* one pass of the loop of calculateNextPlanetaryEvent
EventPass ==
    /\ call.op = "calculateNextPlanetaryEvent"
    /\ ret = Null /\ loop # Null
    /\ Val(loop).passes < MaxPasses
    /\ EventLoopGoesOn(SearchFound, Val(loop).day)
    /\ \E pos \in {calculatePlanetPosition(call.planetName, Val(loop).date)} :
         IF pos = Null
         THEN /\ loop' = Some([Val(loop) EXCEPT !.day = AfterContinue(@),
                                                !.passes = @ + 1])
              /\ ret' = ret
         ELSE IF IsEventDay(Val(pos),
                            calculatePlanetPosition(call.planetName,
                                                    Val(loop).date + SecPerDay),
                            call.event)
         THEN /\ ret' = Some(Some(Val(loop).date))
              /\ loop' = Some([Val(loop) EXCEPT !.passes = @ + 1])
         ELSE /\ loop' = Some([Val(loop) EXCEPT !.date = @ + SecPerDay,
                                                !.day = @ + 1,
                                                !.passes = @ + 1])
              /\ ret' = ret
    /\ UNCHANGED <<call, twVars, tables, viewVars>>

\* the loop of calculateNextPlanetaryEvent ends without an event
EventExhausted ==
    /\ call.op = "calculateNextPlanetaryEvent"
    /\ ret = Null /\ loop # Null
    /\ ~EventLoopGoesOn(SearchFound, Val(loop).day)
    /\ ret' = Some(Null)
    /\ UNCHANGED <<call, loop, twVars, tables, viewVars>>


\* calculateGreatestElongation up to its loop
ElongationEnter ==
    /\ call.op = "calculateGreatestElongation"
    /\ ret = Null /\ loop = Null
    /\ IF SearchFound.kind = "undefined" \/ IsSuperior(SearchFound)
       THEN ret' = Some(Null) /\ loop' = loop
       ELSE ret' = ret /\ loop' = Some(SearchStart)
    /\ UNCHANGED <<call, twVars, tables, viewVars>>

\* the planet is on the side of the sun the search is for
OnSearchedSide(pos, date, type) ==
    Bind(normalizeAngleSigned[pos.ra - approximateSunPosition[date].ra] > 0,
         LAMBDA isEastern :
            (type = "eastern" /\ isEastern) \/ (type = "western" /\ ~isEastern))

\* maxElong and maxDate after the pass that saw pos on date
WithMaximum(l, pos, type) ==
    IF ~pos.nan /\ OnSearchedSide(pos, l.date, type) /\ pos.elongation > l.maxElong
    THEN [l EXCEPT !.maxElong = pos.elongation, !.maxDate = Some(l.date)]
    ELSE l

\* return maxDate ? {date, elongation, type} : null
ElongationResult(l, type) ==
    IF l.maxDate = Null THEN Null
    ELSE Some([date |-> Val(l.maxDate), elongation |-> l.maxElong, type |-> type])

\* one pass of the loop of calculateGreatestElongation; the pass that
\* breaks out of the loop returns
ElongationPass ==
    /\ call.op = "calculateGreatestElongation"
    /\ ret = Null /\ loop # Null
    /\ Val(loop).passes < MaxPasses
    /\ ElongationLoopGoesOn(SearchFound, Val(loop).day)
    /\ \E pos \in {calculatePlanetPosition(call.planetName, Val(loop).date)} :
         IF pos = Null
         THEN /\ loop' = Some([Val(loop) EXCEPT !.day = AfterContinue(@),
                                                !.passes = @ + 1])
              /\ ret' = ret
         ELSE \E l \in {WithMaximum(Val(loop), Val(pos), call.type)} :
                IF /\ l.maxDate # Null
                   /\ ~Val(pos).nan
                   /\ Val(pos).elongation < l.maxElong - 2 * MdPerDeg
                THEN /\ loop' = Some([l EXCEPT !.passes = @ + 1])
                     /\ ret' = Some(ElongationResult(l, call.type))
                ELSE /\ loop' = Some([l EXCEPT !.date = @ + SecPerDay,
                                               !.day = @ + 1,
                                               !.passes = @ + 1])
                     /\ ret' = ret
    /\ UNCHANGED <<call, twVars, tables, viewVars>>

\* the loop of calculateGreatestElongation ends by its condition
ElongationExhausted ==
    /\ call.op = "calculateGreatestElongation"
    /\ ret = Null /\ loop # Null
    /\ ~ElongationLoopGoesOn(SearchFound, Val(loop).day)
    /\ ret' = Some(ElongationResult(Val(loop), call.type))
    /\ UNCHANGED <<call, loop, twVars, tables, viewVars>>

SearchNames ==
    {"mercury", "Venus", "EARTH", "mars", "jupiter", "saturn", "pluto", "constructor"}
\* 2026-03-20 12:00 UTC
SearchDates == {1774008000}
\* and 2026-04-10 12:00 UTC, a week after a greatest western elongation of
\* Mercury
ElongationDates == SearchDates \cup {1775822400}

SearchInit ==
    /\ NoTwilight
    /\ TablesLoaded
    /\ ViewConstructed
    /\ call \in {[op |-> "calculateNextPlanetaryEvent", planetName |-> n,
                  startDate |-> d, event |-> e] :
                    n \in SearchNames, d \in SearchDates,
                    e \in {"opposition", "conjunction"}}
             \cup
                {[op |-> "calculateGreatestElongation", planetName |-> n,
                  startDate |-> d, type |-> t] :
                    n \in SearchNames, d \in ElongationDates,
                    t \in {"eastern", "western"}}
    /\ ret = Null
    /\ loop = Null

SearchNext ==
    \/ EventEnter
    \/ EventPass
    \/ EventExhausted
    \/ ElongationEnter
    \/ ElongationPass
    \/ ElongationExhausted

SpecSearch == SearchInit /\ [][SearchNext]_vars


SearchReturned ==
    /\ call.op \in {"calculateNextPlanetaryEvent", "calculateGreatestElongation"}
    /\ ret # Null

\* the planets of the table by their semi-major axis
InferiorPlanets == {n \in DOMAIN PLANETS : PLANETS[n].a < 1000}

\* C8: calculateNextPlanetaryEvent(planet, start, 'opposition') returns null
\* for every planet with a < 1 without searching (no pass of its loop is
\* made), and calculateGreatestElongation returns null for every planet with
\* a >= 1 and for unknown names.
C8_EligibilityByAxis ==
    /\ (/\ call.op = "calculateNextPlanetaryEvent"
        /\ call.event = "opposition"
        /\ toLowerCase[call.planetName] \in InferiorPlanets)
          => /\ loop = Null
             /\ ret # Null => Val(ret) = Null
    /\ (/\ call.op = "calculateGreatestElongation"
        /\ toLowerCase[call.planetName] \notin InferiorPlanets
        /\ ret # Null)
          => Val(ret) = Null

\* C8: the opposition of Venus was asked for and null came back
C8_Witness ==
    /\ call.op = "calculateNextPlanetaryEvent"
    /\ call.event = "opposition"
    /\ call.planetName = "Venus"
    /\ ret = Some(Null)
    /\ loop = Null

\* 200 times the number of days searched: 1.5 x synodicPeriod, or 800 days
\* for a body without a synodic period
SearchDays200 ==
    IF toLowerCase[call.planetName] \in DOMAIN PLANETS
          /\ PLANETS[toLowerCase[call.planetName]].synodicPeriod # Null
    THEN 3 * Val(PLANETS[toLowerCase[call.planetName]].synodicPeriod)
    ELSE 800 * 200

\* the date a search returned
ReturnedDate ==
    IF call.op = "calculateNextPlanetaryEvent" THEN Val(Val(ret))
    ELSE Val(Val(ret)).date

\* C9: the two searches make at most ceil(1.5 x synodicPeriod) passes (800
\* for a body without a synodic period), and a date they return lies in
\* [startDate, startDate + 1.5 x synodicPeriod days).
C9_BoundedSearch ==
    call.op \in {"calculateNextPlanetaryEvent", "calculateGreatestElongation"} =>
        /\ loop # Null => (Val(loop).passes - 1) * 200 < SearchDays200
        /\ (ret # Null /\ Val(ret) # Null) =>
              /\ ReturnedDate >= call.startDate
              /\ ReturnedDate - call.startDate < SearchDays200 * (SecPerDay \div 200)

\* C9: the search for the earth's conjunction skipped every one of its 800
\* passes and returned null
C9_Witness ==
    /\ call.op = "calculateNextPlanetaryEvent"
    /\ call.planetName = "EARTH"
    /\ ret = Some(Null)
    /\ loop # Null
    /\ Val(loop).passes = 800

\* the elongation of the planet of the call on a date
ElongationOn(date) == Val(calculatePlanetPosition(call.planetName, date)).elongation

\* C25: a date returned by calculateGreatestElongation is a local maximum of
\* the daily elongation: the elongation one day before and one day after it
\* is not greater than the elongation returned.
C25_ReturnedDateIsLocalMaximum ==
    (call.op = "calculateGreatestElongation" /\ ret # Null /\ Val(ret) # Null) =>
        /\ ElongationOn(ReturnedDate - SecPerDay) <= Val(Val(ret)).elongation
        /\ ElongationOn(ReturnedDate + SecPerDay) <= Val(Val(ret)).elongation

-----------------------------------------------------------------------------
(* The tables and the records handed out.  A value handed to a caller is
   the table's own record (a reference: a write through it lands in the
   table), a new object or a new array of objects (a write changes the
   caller's copy only), or a plain value. *)

Shared(table, key) == [kind |-> "shared", table |-> table, key |-> key]
Fresh(record) == [kind |-> "fresh", value |-> record]
FreshList(records) == [kind |-> "list", value |-> records]
Plain(v) == [kind |-> "plain", value |-> v]

\* Math.round of a number given in tenths
RoundTenths[x \in Int] == (x + 5) \div 10

\* getBortleInfo(bortleClass), bortleClass in tenths: the record
\* this.BORTLE_SCALE[bortleClass] itself
getBortleInfo(bortleClass) ==
    Shared("BORTLE_SCALE", Max[1, Min[9, RoundTenths[bortleClass]]])

\* estimateBortleClass(lat, lon): a new object the fields of class 5 are
\* spread into
estimateBortleClass(lat, lon) ==
    Fresh([class |-> 5,
           name |-> tables.BORTLE_SCALE[5].name,
           limitingMag |-> tables.BORTLE_SCALE[5].limitingMag,
           sqm |-> tables.BORTLE_SCALE[5].sqm,
           estimated |-> TRUE,
           message |-> "Use backend API for accurate light pollution data"])

\* bortleToSqm(bortle): this.getBortleInfo(bortle).sqm
bortleToSqm(bortle) ==
    Plain(tables.BORTLE_SCALE[getBortleInfo(bortle).key].sqm)

\* the apparent magnitude getVisiblePlanets estimates, in thousandths
ApparentMagnitude(planet, elongation) ==
    IF planet.apparentMagRange = Null THEN Null
    ELSE IF planet.a > 1000
    THEN Some(planet.apparentMagRange[1]
              + RDiv((planet.apparentMagRange[2] - planet.apparentMagRange[1])
                         * (180 * MdPerDeg - elongation), 180 * MdPerDeg))
    ELSE Some((planet.apparentMagRange[1] + planet.apparentMagRange[2]) \div 2)

\* the entry getVisiblePlanets pushes for a planet; the illumination and the
\* angular diameter are left out
VisiblePlanetEntry(planetName, lat, lon, date, lst0) ==
    Bind(Val(calculatePlanetPosition(planetName, date)), LAMBDA pos :
    Bind(raDecToAltAz[pos.ra, pos.dec, lat, lst0], LAMBDA altAz :
    Bind(Val(calculatePlanetRiseTransitSet(planetName, lat, lon, date)), LAMBDA rts :
        [name |-> PLANETS[planetName].name,
         ra |-> pos.ra,
         dec |-> pos.dec,
         altitude |-> altAz.altitude,
         azimuth |-> altAz.azimuth,
         elongation |-> pos.elongation,
         distance |-> pos.distance,
         magnitude |-> ApparentMagnitude(PLANETS[planetName], pos.elongation),
         isVisible |-> IsVisible(altAz.altitude),
         isRetrograde |-> Val(isPlanetRetrograde(planetName, date)).isRetrograde,
         riseTime |-> rts.rise,
         transitTime |-> rts.transit,
         setTime |-> rts.set])))

\* (a, b) => b.altitude - a.altitude is not positive, or is NaN: a stays
\* before b
KeepsOrderByAltitude(a, b) ==
    \/ a.altitude = NaN
    \/ b.altitude = NaN
    \/ Val(b.altitude) - Val(a.altitude) <= 0

\* result.sort by altitude, highest first: a stable sort
RECURSIVE SortByAltitude(_)
SortByAltitude(entries) ==
    IF entries = <<>> THEN <<>>
    ELSE Bind(SortByAltitude(SubSeq(entries, 1, Len(entries) - 1)), LAMBDA sorted :
         Bind(Cardinality({i \in 1..Len(sorted) :
                              KeepsOrderByAltitude(sorted[i], entries[Len(entries)])}),
              LAMBDA k :
                SubSeq(sorted, 1, k) \o <<entries[Len(entries)]>>
                    \o SubSeq(sorted, k + 1, Len(sorted))))

\* getVisiblePlanets(lat, lon, date)
getVisiblePlanets(lat, lon, date) ==
    Bind(lst[dateToJulian[date], lon], LAMBDA lst0 :
        SortByAltitude(
            [i \in 1..7 |->
                VisiblePlanetEntry(<<"mercury", "venus", "mars", "jupiter",
                                     "saturn", "uranus", "neptune">>[i],
                                   lat, lon, date, lst0)]))

-----------------------------------------------------------------------------
(* Engine calls one after another, and callers writing to what they got *)

\* Bortle classes asked for, in tenths: -1, 1.4, 5, 9.5 and 12
BortleClasses == {-10, 14, 50, 95, 120}
\* the fields a caller assigns 0 to
WrittenFields == {"limitingMag", "a", "altitude"}

TablesInit ==
    /\ NoTwilight
    /\ TablesLoaded
    /\ ViewConstructed
    /\ NoCall

CallGetBortleInfo(bortleClass) ==
    /\ call' = [op |-> "getBortleInfo", bortleClass |-> bortleClass]
    /\ ret' = Some(getBortleInfo(bortleClass))
    /\ UNCHANGED <<loop, twVars, tables, viewVars>>

CallEstimateBortleClass(lat, lon) ==
    /\ call' = [op |-> "estimateBortleClass", lat |-> lat, lon |-> lon]
    /\ ret' = Some(estimateBortleClass(lat, lon))
    /\ UNCHANGED <<loop, twVars, tables, viewVars>>

CallBortleToSqm(bortle) ==
    /\ call' = [op |-> "bortleToSqm", bortle |-> bortle]
    /\ ret' = Some(bortleToSqm(bortle))
    /\ UNCHANGED <<loop, twVars, tables, viewVars>>

CallGetPlanetElements(planetName, date) ==
    /\ call' = [op |-> "getPlanetElements", planetName |-> planetName, date |-> date]
    /\ ret' = Some(Bind(getPlanetElements(planetName, dateToJulian[date]),
                        LAMBDA elements :
                            IF elements = Null THEN Plain(Null)
                            ELSE Fresh(Val(elements))))
    /\ UNCHANGED <<loop, twVars, tables, viewVars>>

CallRankOne(obj, lat, date) ==
    /\ call' = [op |-> "rankObjectsByVisibility", objects |-> <<obj>>,
                lat |-> lat, lon |-> 0, date |-> date, limitingMag |-> 5800]
    /\ ret' = Some(FreshList(rankObjectsByVisibility(<<obj>>, lat, 0, date, 5800)))
    /\ UNCHANGED <<loop, twVars, tables, viewVars>>

CallGetVisiblePlanets(lat, lon, date) ==
    /\ call' = [op |-> "getVisiblePlanets", lat |-> lat, lon |-> lon, date |-> date]
    /\ ret' = Some(FreshList(getVisiblePlanets(lat, lon, date)))
    /\ UNCHANGED <<loop, twVars, tables, viewVars>>

\* the caller assigns a field of the record it was handed (of the first
\* record of an array)
CallerWrites(field) ==
    /\ ret # Null
    /\ \/ /\ Val(ret).kind = "shared"
          /\ field \in DOMAIN tables[Val(ret).table][Val(ret).key]
          /\ tables' = [tables EXCEPT
                            ![Val(ret).table][Val(ret).key][field] = 0]
          /\ ret' = ret
       \/ /\ Val(ret).kind = "fresh"
          /\ field \in DOMAIN Val(ret).value
          /\ ret' = Some(Fresh([Val(ret).value EXCEPT ![field] = 0]))
          /\ tables' = tables
       \/ /\ Val(ret).kind = "list"
          /\ Val(ret).value # <<>>
          /\ field \in DOMAIN Val(ret).value[1]
          /\ ret' = Some(FreshList([Val(ret).value EXCEPT ![1][field] = 0]))
          /\ tables' = tables
    /\ UNCHANGED <<call, loop, twVars, viewVars>>

TablesNext ==
    \/ \E bortleClass \in BortleClasses : CallGetBortleInfo(bortleClass)
    \/ \E lat \in RankLatitudes, lon \in TwLongitudes : CallEstimateBortleClass(lat, lon)
    \/ \E bortle \in BortleClasses : CallBortleToSqm(bortle)
    \/ \E planetName \in SearchNames, date \in SearchDates :
           CallGetPlanetElements(planetName, date)
    \/ \E obj \in Catalog, date \in SearchDates :
           CallRankOne(obj, 45 * MdPerDeg, date)
    \/ \E lon \in TwLongitudes, date \in SearchDates :
           CallGetVisiblePlanets(45 * MdPerDeg, lon, date)
    \/ \E field \in WrittenFields : CallerWrites(field)

SpecTables == TablesInit /\ [][TablesNext]_vars

\* C15: whatever calls are made, and whatever callers write to the records
\* they were handed, the Bortle scale table and the table of planetary
\* elements hold the values they were loaded with.
C15_TablesKeepInitialValues ==
    /\ tables.BORTLE_SCALE = BORTLE_SCALE
    /\ tables.PLANETS = PLANETS

-----------------------------------------------------------------------------
(* Sky Quality Meter readings, in hundredths of mag/arcsec^2 *)

\* sqmToBortle with every threshold excluded from its class
sqmToBortleAbove(sqm) ==
    IF sqm > 2199 THEN 1
    ELSE IF sqm > 2189 THEN 2
    ELSE IF sqm > 2169 THEN 3
    ELSE IF sqm > 2125 THEN 4
    ELSE IF sqm > 2049 THEN 5
    ELSE IF sqm > 1950 THEN 6
    ELSE IF sqm > 1894 THEN 7
    ELSE IF sqm > 1838 THEN 8
    ELSE 9

\* sqmToBortle(sqm)
sqmToBortle(sqm) ==
    IF sqm >= 2199 THEN 1
    ELSE IF sqm >= 2189 THEN 2
    ELSE IF sqm >= 2169 THEN 3
    ELSE IF sqm >= 2125 THEN 4
    ELSE IF sqm >= 2049 THEN 5
    ELSE IF sqm >= 1950 THEN 6
    ELSE IF sqm >= 1894 THEN 7
    ELSE IF sqm >= 1838 THEN 8
    ELSE 9

\* readings from 17.00 to 22.50 by 0.05, and the readings next to a
\* threshold
SqmReadings ==
    {1700 + 5 * k : k \in 0..110}
        \cup {BORTLE_SCALE[c].sqm + j : c \in 1..9, j \in {-1, 0, 1}}

SqmInit ==
    /\ NoTwilight
    /\ TablesLoaded
    /\ ViewConstructed
    /\ call \in {[op |-> "sqmToBortle", sqm |-> sqm] : sqm \in SqmReadings}
               \cup {[op |-> "bortleToSqm", bortle |-> c] : c \in 1..9}
    /\ ret = Null
    /\ loop = Null

CallSqmToBortle ==
    /\ call.op = "sqmToBortle"
    /\ ret = Null
    /\ ret' = Some(sqmToBortle(call.sqm))
    /\ UNCHANGED <<call, loop, twVars, tables, viewVars>>

\* bortleToSqm of a whole class
CallBortleToSqmOfClass ==
    /\ call.op = "bortleToSqm"
    /\ ret = Null
    /\ ret' = Some(bortleToSqm(10 * call.bortle).value)
    /\ UNCHANGED <<call, loop, twVars, tables, viewVars>>

\* sqmToBortle is called with the reading that was returned
CallSqmToBortleOfReading ==
    /\ call.op = "bortleToSqm"
    /\ ret # Null
    /\ call' = [op |-> "sqmToBortle", sqm |-> Val(ret), bortle |-> call.bortle]
    /\ ret' = Some(sqmToBortle(Val(ret)))
    /\ UNCHANGED <<loop, twVars, tables, viewVars>>

SqmNext ==
    \/ CallSqmToBortle
    \/ CallBortleToSqmOfClass
    \/ CallSqmToBortleOfReading

SpecSqm == SqmInit /\ [][SqmNext]_vars

SqmReturned == call.op = "sqmToBortle" /\ ret # Null

\* the classes of 1..8 whose table reading is at most sqm
ClassesReached(sqm) == {c \in 1..8 : BORTLE_SCALE[c].sqm <= sqm}

\* C24: sqmToBortle returns the first class of 1..8 whose table reading is
\* at most the input, else 9, and sqmToBortle(bortleToSqm(c)) = c for every
\* class c of 1..9.
C24_FirstThresholdWins ==
    SqmReturned =>
        /\ ClassesReached(call.sqm) # {} =>
              /\ Val(ret) \in ClassesReached(call.sqm)
              /\ \A c \in ClassesReached(call.sqm) : Val(ret) <= c
        /\ ClassesReached(call.sqm) = {} => Val(ret) = 9
        /\ "bortle" \in DOMAIN call => Val(ret) = call.bortle

\* C24: the reading of class 6 was taken from the table and given back to
\* sqmToBortle
C24_Witness ==
    /\ SqmReturned
    /\ "bortle" \in DOMAIN call
    /\ call.bortle = 6
    /\ call.sqm = 1950

-----------------------------------------------------------------------------
(* AnimationController (src/frontend/js/animation.js) *)

(* animation.timer is null, or <<ms>> for a live interval timer of period   *)
(* ms; animation.onUpdate is null, or <<"callback">> once one is set.       *)
(* lastUpdateTime, which start() sets from Date.now() and nothing reads, is *)
(* left out.  call names the method last called on the controller and ret   *)
(* holds what it returned.                                                  *)

\* Math.max(1, Math.min(100, speed))
ClampSpeed[speed \in Int] == Max[1, Min[100, speed]]

\* Math.max(100, 1000 / Math.sqrt(speed)), to the nearest ms
UpdateIntervalFor[speed \in Int] == Max[100, RDiv(10^6, Sqrt[speed * 10^6])]

\* the fields after start()
Started(a) ==
    IF a.timer # Null THEN a
    ELSE [a EXCEPT !.isPlaying = TRUE, !.timer = Some(a.updateInterval)]

\* the fields after stop()
Stopped(a) == [a EXCEPT !.timer = Null, !.isPlaying = FALSE]

\* the fields after setSpeed(speed)
SpeedSet(a, speed) ==
    LET b == [a EXCEPT !.speed = ClampSpeed[speed],
                       !.updateInterval = UpdateIntervalFor[ClampSpeed[speed]]]
    IN  IF b.timer # Null THEN Started(Stopped(b)) ELSE b

AnimationSpeeds == {0, 1, 2, 4, 10, 25, 50, 100, 400}

AnimationInit ==
    /\ NoTwilight
    /\ TablesLoaded
    /\ ViewConstructed
    /\ NoCall

setUpdateCallback ==
    /\ animation' = [animation EXCEPT !.onUpdate = Some("callback")]
    /\ call' = [op |-> "setUpdateCallback"]
    /\ ret' = Null
    /\ UNCHANGED <<loop, twVars, tables, trackHistory, added>>

start ==
    /\ animation' = Started(animation)
    /\ call' = [op |-> "start"]
    /\ ret' = Null
    /\ UNCHANGED <<loop, twVars, tables, trackHistory, added>>

stop ==
    /\ animation' = Stopped(animation)
    /\ call' = [op |-> "stop"]
    /\ ret' = Null
    /\ UNCHANGED <<loop, twVars, tables, trackHistory, added>>

toggle ==
    /\ animation' = [animation EXCEPT !.isPlaying = ~animation.isPlaying]
    /\ call' = [op |-> "toggle"]
    /\ ret' = Some(~animation.isPlaying)
    /\ UNCHANGED <<loop, twVars, tables, trackHistory, added>>

setSpeed(speed) ==
    /\ animation' = SpeedSet(animation, speed)
    /\ call' = [op |-> "setSpeed", speed |-> speed]
    /\ ret' = Null
    /\ UNCHANGED <<loop, twVars, tables, trackHistory, added>>

\* the interval timer fires: the callback runs if the controller is playing
\* and has one
TimerFires ==
    /\ animation.timer # Null
    /\ animation.isPlaying
    /\ animation.onUpdate # Null
    /\ call' = [op |-> "onUpdate"]
    /\ ret' = Null
    /\ UNCHANGED <<animation, loop, twVars, tables, trackHistory, added>>

AnimationNext ==
    \/ setUpdateCallback
    \/ start
    \/ stop
    \/ toggle
    \/ \E speed \in AnimationSpeeds : setSpeed(speed)
    \/ TimerFires

SpecAnimation == AnimationInit /\ [][AnimationNext]_vars

\* C29: setSpeed changes only speed and updateInterval and restarts a live
\* timer: after any start, stop and toggle calls a following setSpeed leaves
\* isPlaying as it was before the call, also when playback was paused with
\* toggle().
C29_SetSpeedKeepsPlayState ==
    [][(\E speed \in AnimationSpeeds : setSpeed(speed)) =>
           animation'.isPlaying = animation.isPlaying]_vars

-----------------------------------------------------------------------------
(* OrbitRenderer's history buffer (src/frontend/js/orbit-renderer.js) *)

(* A position is told apart by its serial number: the k-th position given   *)
(* to addToHistory since construction is k.                                 *)

HistoryLimit == 300     \* the length above which addToHistory drops a position
MaxAdded == 304         \* positions given to addToHistory in a run

\* push(position), then pop() on overflow: the newest position is dropped
HistoryAfterAddDropNewest(history, position) ==
    IF Len(Append(history, position)) > HistoryLimit
    THEN SubSeq(Append(history, position), 1, Len(history))
    ELSE Append(history, position)

\* push(position), then shift() on overflow: the oldest position is dropped
HistoryAfterAdd(history, position) ==
    IF Len(Append(history, position)) > HistoryLimit
    THEN Tail(Append(history, position))
    ELSE Append(history, position)

HistoryInit ==
    /\ NoTwilight
    /\ TablesLoaded
    /\ ViewConstructed
    /\ call = [op |-> "none", given |-> 0]
    /\ ret = Null
    /\ loop = Null

addToHistory ==
    /\ call.given < MaxAdded
    /\ trackHistory' = HistoryAfterAdd(trackHistory, call.given + 1)
    /\ added' = Append(added, call.given + 1)
    /\ call' = [op |-> "addToHistory", given |-> call.given + 1]
    /\ UNCHANGED <<ret, loop, twVars, tables, animation>>

clearHistory ==
    /\ trackHistory' = <<>>
    /\ added' = <<>>
    /\ call' = [op |-> "clearHistory", given |-> call.given]
    /\ UNCHANGED <<ret, loop, twVars, tables, animation>>

HistoryNext == addToHistory \/ clearHistory

SpecHistory == HistoryInit /\ [][HistoryNext]_vars

\* the most recent k of the positions in list, in the order they were added
MostRecent(list, k) == SubSeq(list, Len(list) - k + 1, Len(list))

\* C30: after any addToHistory and clearHistory calls the history holds at
\* most 300 positions: the most recent min(n, 300) of the n added since the
\* last clearHistory, in insertion order.
C30_MostRecentThreeHundred ==
    /\ Len(trackHistory) <= HistoryLimit
    /\ trackHistory = MostRecent(added, Min[Len(added), HistoryLimit])

\* C30: after a clearHistory, two positions more than the buffer holds were
\* added, and the two oldest of them are gone
C30_Witness ==
    /\ call.op = "addToHistory"
    /\ Len(added) = HistoryLimit + 2
    /\ added[1] > 1
    /\ trackHistory[1] = added[3]

====
